---------------------------- MODULE Spec2Model ----------------------------
(***************************************************************************)
(* Model of the QuantConnect Control Room: the React client (ui/src/App.jsx *)
(* and ui/src/api/client.js) and the backtest job service it talks to.     *)
(*                                                                         *)
(* The specifications of the module:                                       *)
(*   SpecCoerce, SpecRoundTrip, SpecIdempotence                            *)
(*               the parameter coercion of App.jsx as a pure function,     *)
(*               applied to inputs drawn from bounded sets;                *)
(*   Spec, SpecSymbol, SpecParams, SpecUnmount                             *)
(*               the App component: the manifest load, symbol entry, the   *)
(*               parameter editor, handleRun, createBacktest and the       *)
(*               pollBacktest loop against a server that may answer        *)
(*               anything;                                                 *)
(*   SpecClient  the functions of api/client.js, one call at a time;       *)
(*   SpecIndicators, SpecMetrics, SpecMarkers                              *)
(*               one rendering of the indicators panel, of the metric      *)
(*               cards and of the price chart's markers;                   *)
(*   SpecJobs    the job service (JobManager / JobStore), whose code is    *)
(*               backend/app.py and is described by spec.md only.          *)
(***************************************************************************)
EXTENDS Integers, Sequences, FiniteSets, Bags, TLC

VARIABLES
    \* --- SpecCoerce: one application of coerceParameterTypes
    cvalues,      \* the caller's values (the `parameters` state), key -> value
    cdefaults,    \* the selected algorithm's default parameters, key -> value
    cresult,      \* the resolved parameters, or NoResult before the call
    cpc,          \* "input" | "done" ("off" outside SpecCoerce)
    \* --- Spec: the App component's state (useState) ...
    algorithms,       \* the manifest shown: a sequence of manifest entries
    selectedAlgoId,   \* id of the selected algorithm ("" for none)
    symbol,           \* text of the symbol field
    timeframe,
    parameters,       \* editable parameters, key -> string value
    runState,         \* "idle" | "running" | "complete" | "error" | a job status
    activeTab,
    result,           \* what the panels show: null, the sample or a job snapshot
    notice,
    \* ... the asynchronous work in flight ...
    loadPc,           \* loadAlgorithms: "pending" (fetchAlgorithms awaited) | "settled"
                      \* | "cancelled" (returned at `if (isCancelled) return`)
    isCancelled,      \* the flag the effect's cleanup sets when App unmounts
    runs,             \* run slot -> the local state of one handleRun call
    \* ... and what the model records about it.
    enteredText,      \* the text last typed into the symbol field, if it still shows
    pollOutcome,      \* how the pollBacktest call that ended last ended
    latestRun,        \* the handleRun call started last: in flight, or what it set
    \* --- SpecJobs: the job service
    jobs,             \* the JobStore: job id (1, 2, ...) -> Job record
    observed,         \* job id -> the statuses readers saw, repeats merged
    lastCall,         \* the last create/get call and what was answered
    \* --- SpecClient: one call of a function of api/client.js at a time
    clientPc,         \* "idle" | "fetch" | "json" | "settled"
    clientCall,       \* the function called and its arguments
    fetched,          \* the fetch calls the function has issued
    response,         \* the Response fetch resolved with, if it did
    outcome,          \* the promise the function returned
    \* --- SpecIndicators: one rendering of IndicatorsPanel
    panelInput,       \* result?.indicators
    panelShown,       \* what the panel renders
    panelPc,          \* "input" | "rendered" ("off" when no panel is rendered)
    \* --- SpecMetrics: one rendering of the metric cards
    metricsResult,    \* `result`
    metricCards,      \* the cards MetricGrid is given
    \* --- SpecMarkers: one rendering of PriceChart
    tradesProp,       \* the `trades` prop
    markers           \* what series.setMarkers was called with

coerceVars == <<cvalues, cdefaults, cresult, cpc>>

uiVars == <<algorithms, selectedAlgoId, symbol, timeframe, parameters, runState,
            activeTab, result, notice, loadPc, isCancelled, runs, enteredText, pollOutcome, latestRun>>

jobVars == <<jobs, observed, lastCall>>

clientVars == <<clientPc, clientCall, fetched, response, outcome>>

panelVars == <<panelInput, panelShown, panelPc, metricsResult, metricCards,
              tradesProp, markers>>

vars == <<cvalues, cdefaults, cresult, cpc,
          algorithms, selectedAlgoId, symbol, timeframe, parameters, runState,
          activeTab, result, notice, loadPc, isCancelled, runs, enteredText, pollOutcome,
          latestRun,
          jobs, observed, lastCall,
          clientPc, clientCall, fetched, response, outcome,
          panelInput, panelShown, panelPc, metricsResult, metricCards,
          tradesProp, markers>>

(***************************************************************************)
(* Bounds of the model.                                                    *)
(***************************************************************************)
\* Longest text (in characters) that is typed into a field.
MaxLen == 2
\* Most handleRun calls in flight at once.
MaxRuns == 2
\* Most jobs the service is asked to create.
MaxJobs == 2
\* Longest indicators array handed to the indicators panel.
MaxItems == 3
\* Trades of a result at most.
MaxTrades == 2

(***************************************************************************)
(* JavaScript values.  A value is a record [t, n, s]: t is the type tag,   *)
(* n the number (type "num"; the sign for "inf"), s the characters (type   *)
(* "str", a sequence of one-character strings).                            *)
(***************************************************************************)
Num(n) == [t |-> "num", n |-> n, s |-> <<>>]
Str(s) == [t |-> "str", n |-> 0, s |-> s]
Null == [t |-> "null", n |-> 0, s |-> <<>>]
Undefined == [t |-> "undef", n |-> 0, s |-> <<>>]
NaN == [t |-> "nan", n |-> 0, s |-> <<>>]
Infinity(sign) == [t |-> "inf", n |-> sign, s |-> <<>>]

EmptyString == Str(<<>>)

\* StrWhiteSpaceChar of the language: what trim() and Number() strip.
WhiteSpace == {" ", "\t", "\n"}
Digits == {"0", "1", "2", "3", "4", "5", "6", "7", "8", "9"}

DigitVal(c) ==
    CASE c = "0" -> 0 [] c = "1" -> 1 [] c = "2" -> 2 [] c = "3" -> 3
      [] c = "4" -> 4 [] c = "5" -> 5 [] c = "6" -> 6 [] c = "7" -> 7
      [] c = "8" -> 8 [] c = "9" -> 9

DigitChar(d) ==
    CASE d = 0 -> "0" [] d = 1 -> "1" [] d = 2 -> "2" [] d = 3 -> "3"
      [] d = 4 -> "4" [] d = 5 -> "5" [] d = 6 -> "6" [] d = 7 -> "7"
      [] d = 8 -> "8" [] d = 9 -> "9"

RECURSIVE TrimStart(_)
TrimStart(s) ==
    IF s # <<>> /\ Head(s) \in WhiteSpace THEN TrimStart(Tail(s)) ELSE s

RECURSIVE TrimEnd(_)
TrimEnd(s) ==
    IF s # <<>> /\ s[Len(s)] \in WhiteSpace
    THEN TrimEnd(SubSeq(s, 1, Len(s) - 1))
    ELSE s

\* String.prototype.trim
Trim(s) == TrimEnd(TrimStart(s))

RECURSIVE DecimalDigitsValue(_)
DecimalDigitsValue(s) ==
    IF s = <<>> THEN 0
    ELSE 10 * DecimalDigitsValue(SubSeq(s, 1, Len(s) - 1)) + DigitVal(s[Len(s)])

IsDecimalDigits(s) == s # <<>> /\ \A i \in 1..Len(s) : s[i] \in Digits

InfinityLiteral == <<"I", "n", "f", "i", "n", "i", "t", "y">>

\* Number(string): the StringToNumber conversion, for texts without a
\* decimal point, an exponent or a radix prefix.  Surrounding white space is
\* stripped, the empty text is 0, an optionally signed run of digits is its
\* value, an optionally signed "Infinity" is infinite, anything else is NaN.
StringToNumber(s) ==
    LET t == Trim(s)
        signed == t # <<>> /\ Head(t) \in {"+", "-"}
        body == IF signed THEN Tail(t) ELSE t
        sign == IF signed /\ Head(t) = "-" THEN -1 ELSE 1
    IN  IF t = <<>> THEN Num(0)
        ELSE IF IsDecimalDigits(body) THEN Num(sign * DecimalDigitsValue(body))
        ELSE IF body = InfinityLiteral THEN Infinity(sign)
        ELSE NaN

\* Number(value)
ToNumber(v) ==
    CASE v.t = "str" -> StringToNumber(v.s)
      [] v.t = "null" -> Num(0)
      [] v.t = "undef" -> NaN
      [] OTHER -> v

\* Number.isFinite(value)
NumberIsFinite(v) == v.t = "num"

RECURSIVE NaturalToString(_)
NaturalToString(n) ==
    IF n < 10 THEN <<DigitChar(n)>>
    ELSE NaturalToString(n \div 10) \o <<DigitChar(n % 10)>>

\* String(number), for integers.
NumberToString(n) ==
    IF n < 0 THEN <<"-">> \o NaturalToString(0 - n) ELSE NaturalToString(n)

(***************************************************************************)
(* Objects are functions from their own keys to values; reading a key the  *)
(* object does not have gives undefined.                                   *)
(***************************************************************************)
Get(obj, key) == IF key \in DOMAIN obj THEN obj[key] ELSE Undefined

EmptyObject == [k \in {} |-> Undefined]

(***************************************************************************)
(* cloneParameters(input): the editable copy of the default parameters.    *)
(***************************************************************************)
\* Mutant: null is cloned with String(value), as numbers are.
CloneParametersNullAsText(input) ==
    [key \in DOMAIN input |->
        LET value == input[key]
        IN  IF value.t = "null" THEN Str(<<"n", "u", "l", "l">>)
            ELSE IF value.t = "undef" THEN EmptyString
            ELSE IF value.t = "num" THEN Str(NumberToString(value.n))
            ELSE value]

cloneParameters(input) ==
    [key \in DOMAIN input |->
        LET value == input[key]
        IN  IF value.t \in {"null", "undef"} THEN EmptyString
            ELSE IF value.t = "num" THEN Str(NumberToString(value.n))
            ELSE value]

(***************************************************************************)
(* coerceParameterTypes(currentValues, defaults).                          *)
(***************************************************************************)
\* Mutant: the parse result is used without the Number.isFinite fallback.
CoerceDefaultEntryNoFallback(raw, defaultValue) ==
    IF raw = Undefined \/ raw = EmptyString THEN defaultValue
    ELSE IF defaultValue.t \in {"num", "nan", "inf"} THEN ToNumber(raw)
    ELSE raw

\* Mutant: only a missing key, not the empty string, selects the default.
CoerceDefaultEntryEmptyParsed(raw, defaultValue) ==
    IF raw = Undefined THEN defaultValue
    ELSE IF defaultValue.t \in {"num", "nan", "inf"}
         THEN LET parsed == ToNumber(raw)
              IN  IF NumberIsFinite(parsed) THEN parsed ELSE defaultValue
         ELSE raw

\* Mutant: a numeric-looking value is parsed whatever the default's type.
CoerceDefaultEntryAlwaysParsed(raw, defaultValue) ==
    IF raw = Undefined \/ raw = EmptyString THEN defaultValue
    ELSE LET parsed == ToNumber(raw)
         IN  IF NumberIsFinite(parsed) THEN parsed
             ELSE IF defaultValue.t \in {"num", "nan", "inf"} THEN defaultValue
             ELSE raw

\* Mutant: every falsy value (0, null and NaN too), not only undefined and
\* '', selects the default.
CoerceDefaultEntryFalsyMissing(raw, defaultValue) ==
    IF raw \in {Undefined, EmptyString, Null, NaN, Num(0)} THEN defaultValue
    ELSE IF defaultValue.t \in {"num", "nan", "inf"}
         THEN LET parsed == ToNumber(raw)
              IN  IF NumberIsFinite(parsed) THEN parsed ELSE defaultValue
         ELSE raw

\* The first loop: one resolved entry for every key of the defaults.
CoerceDefaultEntry(raw, defaultValue) ==
    IF raw = Undefined \/ raw = EmptyString THEN defaultValue
    ELSE IF defaultValue.t \in {"num", "nan", "inf"}
         THEN LET parsed == ToNumber(raw)
              IN  IF NumberIsFinite(parsed) THEN parsed ELSE defaultValue
         ELSE raw

\* Mutant: an extra key keeps its text even when it is numeric.
CoerceExtraEntryKeptAsText(raw) == raw

\* The second loop's value for a key the first loop left undefined.
CoerceExtraEntry(raw) ==
    LET numeric == ToNumber(raw)
    IN  IF NumberIsFinite(numeric) THEN numeric ELSE raw

\* The keys the second loop adds: not yet resolved, and neither '' nor
\* undefined.
CoerceExtraKeys(currentValues, resolved) ==
    {key \in DOMAIN currentValues :
        /\ Get(resolved, key) = Undefined
        /\ currentValues[key] # EmptyString
        /\ currentValues[key] # Undefined}

coerceParameterTypes(currentValues, defaults) ==
    LET first == [key \in DOMAIN defaults |->
                    CoerceDefaultEntry(Get(currentValues, key), defaults[key])]
        extra == CoerceExtraKeys(currentValues, first)
    IN  [key \in (DOMAIN first) \cup extra |->
            IF key \in extra THEN CoerceExtraEntry(currentValues[key])
            ELSE first[key]]

(***************************************************************************)
(* Inputs of the coercion.                                                 *)
(***************************************************************************)
\* The characters typed: digits, a letter, a blank and a sign.
Alphabet == {"1", "2", "a", " ", "-"}

RECURSIVE TextsOfLength(_)
TextsOfLength(n) ==
    IF n = 0 THEN {<<>>}
    ELSE {t \o <<c>> : t \in TextsOfLength(n - 1), c \in Alphabet}

TextsUpTo(n) == UNION {TextsOfLength(i) : i \in 0..n}

\* Texts of the documented examples, whatever the length bound.
SampleTexts == {<<"2", "1">>, <<"a", "b", "c">>, InfinityLiteral}

Texts == TextsUpTo(MaxLen) \cup SampleTexts

ParamKeys == {"period", "mode"}

\* A manifest's default for a key: a number, a string or null.
DefaultValues == {Num(14), Str(<<"a">>), Null}

Objects(keys, values) == UNION {[d -> values] : d \in SUBSET keys}

NoResult == "none"

(***************************************************************************)
(* The manifest (GET /algorithms) and the REST answers.                    *)
(***************************************************************************)
SPY == <<"S", "P", "Y">>
QQQ == <<"Q", "Q", "Q">>

\* timeframeOptions[0].id
DefaultTimeframe == <<"1", "D">>

AlgoRsi ==
    [id |-> "rsi_ma_cross",
     defaults |-> [symbol |-> Str(SPY), timeframe |-> Str(<<"1", "D">>),
                   startDate |-> "2018-01-01", endDate |-> "2019-12-31",
                   parameters |-> [period |-> Num(14), mode |-> Str(<<"a">>)]]]

AlgoEma ==
    [id |-> "trend_follow_ema",
     defaults |-> [symbol |-> Undefined, timeframe |-> Undefined,
                   startDate |-> "2018-01-01", endDate |-> "2019-12-31",
                   parameters |-> [fast |-> Num(12), label |-> Null]]]

\* An entry the server may send whose id is empty.
AlgoBlank ==
    [id |-> "",
     defaults |-> [symbol |-> Str(QQQ), timeframe |-> Str(<<"4", "H">>),
                   startDate |-> "2018-01-01", endDate |-> "2019-12-31",
                   parameters |-> EmptyObject]]

\* mockAlgorithms of ui/src/mock/data.js
mockAlgorithms == <<AlgoRsi, AlgoEma>>

\* What GET /algorithms may answer with: the empty list stands for every
\* body that is not a non-empty array.
ManifestBodies == {<<>>, <<AlgoEma, AlgoRsi>>, <<AlgoBlank>>}

JobStatuses == {"queued", "running", "completed", "failed"}
NoStatus == "nostatus"

\* A body of GET /backtests/{jobId}: a job snapshot, with or without a status.
JobBody(status) == [kind |-> "job", status |-> status]
JobBodies == {JobBody(st) : st \in JobStatuses \cup {NoStatus}}

NullResult == [kind |-> "null", status |-> NoStatus]
\* mockBacktestResult of ui/src/mock/data.js
mockBacktestResult == [kind |-> "mock", status |-> NoStatus]

NoticeNone == ""
NoticeSelectAlgorithm == "Select an algorithm before running a backtest."
NoticeBackendUnavailable ==
    "Backend API unavailable. Displaying sample data until the service is running."
NoticeServiceUnavailable ==
    "Backtest service unavailable. Displaying cached sample output until the service is online."

TimedOutMessage == "Timed out waiting for backtest to finish"
\* The message of a rejected request (safeParseError's detail or status text).
RequestFailedMessage == "Request failed"

(***************************************************************************)
(* Strings of the symbol field.                                            *)
(***************************************************************************)
UpperChar(c) ==
    CASE c = "s" -> "S" [] c = "p" -> "P" [] c = "y" -> "Y" [] c = "q" -> "Q"
      [] c = "a" -> "A" [] OTHER -> c

\* String.prototype.toUpperCase
ToUpperCase(s) == [i \in 1..Len(s) |-> UpperChar(s[i])]

\* The characters typed into the symbol field.
SymbolAlphabet == {"s", " "}

RECURSIVE SymbolTextsOfLength(_)
SymbolTextsOfLength(n) ==
    IF n = 0 THEN {<<>>}
    ELSE {t \o <<c>> : t \in SymbolTextsOfLength(n - 1), c \in SymbolAlphabet}

SymbolTexts == UNION {SymbolTextsOfLength(i) : i \in 0..MaxLen}

(***************************************************************************)
(* The App component.                                                      *)
(***************************************************************************)
FindAlgo(list, id) ==
    LET hits == {i \in 1..Len(list) : list[i].id = id}
    IN  IF hits = {} THEN <<>>
        ELSE <<list[CHOOSE i \in hits : \A j \in hits : i <= j]>>

\* defaults = selectedAlgo?.defaults ?? {} and what handleRun reads of it
SelectedAlgo == FindAlgo(algorithms, selectedAlgoId)
parameterDefaults ==
    IF SelectedAlgo = <<>> THEN EmptyObject ELSE SelectedAlgo[1].defaults.parameters
DefaultsDate(field) ==
    IF SelectedAlgo = <<>> THEN "undefined"
    ELSE IF field = "startDate" THEN SelectedAlgo[1].defaults.startDate
    ELSE SelectedAlgo[1].defaults.endDate

\* value ?? fallback, for a text
TextOr(value, fallback) == IF value.t = "str" THEN value.s ELSE fallback

\* pollBacktest(jobId, attempts = 8, delayMs = 400)
DefaultAttempts == 8

\* Mutant: the symbol is upper-cased but not trimmed.
PayloadSymbolUntrimmed(text) == ToUpperCase(text)

\* symbol: symbol.trim().toUpperCase()
PayloadSymbol(text) == ToUpperCase(Trim(text))

\* The body handleRun posts.
Payload ==
    [algorithmId |-> selectedAlgoId,
     symbol |-> PayloadSymbol(symbol),
     timeframe |-> timeframe,
     startDate |-> DefaultsDate("startDate"),
     endDate |-> DefaultsDate("endDate"),
     parameters |-> coerceParameterTypes(parameters, parameterDefaults)]

NoOutcome == [kind |-> "none", value |-> NullResult, message |-> ""]
Returned(job) == [kind |-> "returned", value |-> job, message |-> ""]
Threw(msg) == [kind |-> "threw", value |-> NullResult, message |-> msg]

\* The handleRun calls in flight are a bag of their local states: pc is the
\* await the call is suspended at, payload the body of its POST while that
\* is in flight, attempt/attempts the loop of pollBacktest, job the status of
\* the snapshot the loop holds, calls the getBacktest calls issued so far,
\* latest whether no handleRun call was started after this one.
NoJob == "none"
RunCreating(payload) ==
    [pc |-> "creating", attempt |-> 0, attempts |-> 0, calls |-> 0,
     job |-> NoJob, payload |-> <<payload>>, latest |-> TRUE]
RunPolling(latest, pc, attempt, attempts, calls, job) ==
    [pc |-> pc, attempt |-> attempt, attempts |-> attempts, calls |-> calls,
     job |-> job, payload |-> <<>>, latest |-> latest]

Without(run) == runs (-) SetToBag({run})
Replaced(run, next) == Without(run) (+) SetToBag({next})

\* What the model records of the call started last.
NotStarted == [kind |-> "none", result |-> NullResult, runState |-> "idle"]
StillInFlight == [kind |-> "inflight", result |-> NullResult, runState |-> "running"]
Finished(res, state) == [kind |-> "finished", result |-> res, runState |-> state]

\* The calls in flight once another call is started: none of them the latest.
Superseded(run) == [run EXCEPT !.latest = FALSE]
SupersededRuns ==
    LET old == {Superseded(run) : run \in BagToSet(runs)}
    IN  [run \in old |->
            CopiesIn(run, runs) + CopiesIn([run EXCEPT !.latest = TRUE], runs)]

\* A call ends having set result and runState.
RunEnds(run) ==
    latestRun' = IF run.latest THEN Finished(result', runState') ELSE latestRun

\* Mutant: the catch block only logs the error.
HandleRunCatchLogsOnly == UNCHANGED <<result, runState, notice>>

\* The catch block of handleRun.
HandleRunCatch ==
    /\ result' = mockBacktestResult
    /\ runState' = "error"
    /\ notice' = NoticeServiceUnavailable

\* handleRun, from the click to its first await.  The Run button is disabled
\* while runState is 'running'; at most `cap` calls are followed at a time.
handleRun(cap) ==
    /\ UNCHANGED <<coerceVars, jobVars, clientVars, panelVars>>
    /\ runState # "running"
    /\ BagCardinality(runs) < cap
    /\ IF selectedAlgoId = ""
       THEN /\ notice' = NoticeSelectAlgorithm
            /\ UNCHANGED <<activeTab, runState, runs, latestRun>>
       ELSE /\ activeTab' = "chart"
            /\ runState' = "running"
            /\ notice' = NoticeNone
            /\ runs' = SupersededRuns (+) SetToBag({RunCreating(Payload)})
            /\ latestRun' = StillInFlight
    /\ UNCHANGED <<algorithms, selectedAlgoId, symbol, timeframe, parameters,
                   result, loadPc, isCancelled, enteredText, pollOutcome>>

\* Mutant: the loop runs while attempt <= attempts, one call too many.
PollLoopHeadOffByOne(run, attempt, attempts, calls) ==
    IF attempt <= attempts
    THEN /\ runs' = Replaced(run, RunPolling(run.latest, "get", attempt, attempts, calls + 1, NoJob))
         /\ UNCHANGED <<result, runState, notice, pollOutcome, latestRun>>
    ELSE /\ runs' = Without(run)
         /\ pollOutcome' = Threw(TimedOutMessage)
         /\ HandleRunCatch
         /\ RunEnds(run)

\* pollBacktest's loop head with `attempt` already set: the next getBacktest
\* call, or the throw after the last attempt (caught by handleRun).
PollLoopHead(run, attempt, attempts, calls) ==
    IF attempt < attempts
    THEN /\ runs' = Replaced(run, RunPolling(run.latest, "get", attempt, attempts, calls + 1, NoJob))
         /\ UNCHANGED <<result, runState, notice, pollOutcome, latestRun>>
    ELSE /\ runs' = Without(run)
         /\ pollOutcome' = Threw(TimedOutMessage)
         /\ HandleRunCatch
         /\ RunEnds(run)

\* createBacktest resolved with {jobId}: pollBacktest(jobId) starts.
CreateBacktestResolved(run) ==
    /\ UNCHANGED <<coerceVars, jobVars, clientVars, panelVars>>
    /\ BagIn(run, runs) /\ run.pc = "creating"
    /\ PollLoopHead(run, 0, DefaultAttempts, 0)
    /\ UNCHANGED <<algorithms, selectedAlgoId, symbol, timeframe, parameters,
                   activeTab, loadPc, isCancelled, enteredText>>

\* createBacktest rejected: handleRun's catch.
CreateBacktestRejected(run) ==
    /\ UNCHANGED <<coerceVars, jobVars, clientVars, panelVars>>
    /\ BagIn(run, runs) /\ run.pc = "creating"
    /\ runs' = Without(run)
    /\ HandleRunCatch
    /\ RunEnds(run)
    /\ UNCHANGED <<algorithms, selectedAlgoId, symbol, timeframe, parameters,
                   activeTab, loadPc, isCancelled, enteredText, pollOutcome>>

\* if (!job?.status || job.status === 'completed') return job
PollStops(job) == job.status = NoStatus \/ job.status = "completed"

\* setRunState(jobResult?.status ?? 'complete')
RunStateOf(job) == IF job.status = NoStatus THEN "complete" ELSE job.status

\* The run-status pill: the label rendered for a runState, '' for none.
RunStatusLabel(state) ==
    CASE state = "running" -> "Running"
      [] state = "idle" -> "Idle"
      [] state = "complete" -> "Complete"
      [] state = "error" -> "Error"
      [] OTHER -> ""

\* getBacktest resolved with `job`: pollBacktest returns it to handleRun, or
\* starts the delay.
GetBacktestResolved(run, job) ==
    /\ UNCHANGED <<coerceVars, jobVars, clientVars, panelVars>>
    /\ BagIn(run, runs) /\ run.pc = "get"
    /\ IF PollStops(job)
       THEN /\ runs' = Without(run)
            /\ pollOutcome' = Returned(job)
            /\ result' = job
            /\ runState' = RunStateOf(job)
            /\ RunEnds(run)
            /\ UNCHANGED notice
       ELSE /\ runs' = Replaced(run, [run EXCEPT !.pc = "sleep", !.job = job.status])
            /\ UNCHANGED <<result, runState, notice, pollOutcome, latestRun>>
    /\ UNCHANGED <<algorithms, selectedAlgoId, symbol, timeframe, parameters,
                   activeTab, loadPc, isCancelled, enteredText>>

\* getBacktest rejected: pollBacktest rethrows, handleRun catches.
GetBacktestRejected(run) ==
    /\ UNCHANGED <<coerceVars, jobVars, clientVars, panelVars>>
    /\ BagIn(run, runs) /\ run.pc = "get"
    /\ runs' = Without(run)
    /\ pollOutcome' = Threw(RequestFailedMessage)
    /\ HandleRunCatch
    /\ RunEnds(run)
    /\ UNCHANGED <<algorithms, selectedAlgoId, symbol, timeframe, parameters,
                   activeTab, loadPc, isCancelled, enteredText>>

\* The delay of pollBacktest elapsed: attempt += 1 and the loop head.
PollDelayElapsed(run) ==
    /\ UNCHANGED <<coerceVars, jobVars, clientVars, panelVars>>
    /\ BagIn(run, runs) /\ run.pc = "sleep"
    /\ PollLoopHead(run, run.attempt + 1, run.attempts, run.calls)
    /\ UNCHANGED <<algorithms, selectedAlgoId, symbol, timeframe, parameters,
                   activeTab, loadPc, isCancelled, enteredText>>

\* onSymbolChange={(value) => setSymbol(value.toUpperCase())}
onSymbolChange(value) ==
    /\ UNCHANGED <<coerceVars, jobVars, clientVars, panelVars>>
    /\ symbol' = ToUpperCase(value)
    /\ enteredText' = Str(value)
    /\ UNCHANGED <<algorithms, selectedAlgoId, timeframe, parameters, runState,
                   activeTab, result, notice, loadPc, isCancelled, runs, pollOutcome, latestRun>>

\* onAlgoChange(id), id one of the options of the select.
onAlgoChange(id) ==
    /\ UNCHANGED <<coerceVars, jobVars, clientVars, panelVars>>
    /\ \E i \in 1..Len(algorithms) : algorithms[i].id = id
    /\ selectedAlgoId' = id
    /\ LET next == FindAlgo(algorithms, id)[1]
       IN  /\ symbol' = TextOr(next.defaults.symbol, symbol)
           /\ timeframe' = TextOr(next.defaults.timeframe, DefaultTimeframe)
           /\ parameters' = cloneParameters(next.defaults.parameters)
           /\ enteredText' =
                IF next.defaults.symbol.t = "str" THEN Undefined ELSE enteredText
    /\ UNCHANGED <<algorithms, runState, activeTab, result, notice, loadPc, isCancelled, runs,
                   pollOutcome, latestRun>>

\* loadAlgorithms after fetchAlgorithms resolved with `data`.
FetchAlgorithmsResolved(data) ==
    /\ UNCHANGED <<coerceVars, jobVars, clientVars, panelVars>>
    /\ loadPc = "pending"
    /\ loadPc' = IF isCancelled THEN "cancelled" ELSE "settled"
    /\ IF ~isCancelled /\ Len(data) > 0
       THEN LET first == data[1]
            IN  /\ algorithms' = data
                /\ selectedAlgoId' = first.id
                /\ symbol' = TextOr(first.defaults.symbol, SPY)
                /\ timeframe' = TextOr(first.defaults.timeframe, DefaultTimeframe)
                /\ parameters' = cloneParameters(first.defaults.parameters)
                /\ runState' = "idle"
                /\ result' = NullResult
                /\ notice' = NoticeNone
                /\ enteredText' = Undefined
       ELSE UNCHANGED <<algorithms, selectedAlgoId, symbol, timeframe, parameters,
                        runState, result, notice, enteredText>>
    /\ UNCHANGED <<activeTab, isCancelled, runs, pollOutcome, latestRun>>

\* Mutant: the catch block does not look at isCancelled.
FetchAlgorithmsRejectedUnchecked ==
    /\ UNCHANGED <<coerceVars, jobVars, clientVars, panelVars>>
    /\ loadPc = "pending"
    /\ loadPc' = "settled"
    /\ notice' = NoticeBackendUnavailable
    /\ algorithms' = mockAlgorithms
    /\ parameters' = cloneParameters(mockAlgorithms[1].defaults.parameters)
    /\ result' = mockBacktestResult
    /\ runState' = "complete"
    /\ UNCHANGED <<selectedAlgoId, symbol, timeframe, activeTab, isCancelled, runs,
                   enteredText, pollOutcome, latestRun>>

\* loadAlgorithms after fetchAlgorithms rejected.
FetchAlgorithmsRejected ==
    /\ UNCHANGED <<coerceVars, jobVars, clientVars, panelVars>>
    /\ loadPc = "pending"
    /\ loadPc' = IF isCancelled THEN "cancelled" ELSE "settled"
    /\ IF isCancelled
       THEN UNCHANGED <<notice, algorithms, parameters, result, runState>>
       ELSE /\ notice' = NoticeBackendUnavailable
            /\ algorithms' = mockAlgorithms
            /\ parameters' = cloneParameters(mockAlgorithms[1].defaults.parameters)
            /\ result' = mockBacktestResult
            /\ runState' = "complete"
    /\ UNCHANGED <<selectedAlgoId, symbol, timeframe, activeTab, isCancelled, runs,
                   enteredText, pollOutcome, latestRun>>

\* App unmounts: the cleanup of the effect sets isCancelled.
Unmount ==
    /\ UNCHANGED <<coerceVars, jobVars, clientVars, panelVars>>
    /\ ~isCancelled
    /\ isCancelled' = TRUE
    /\ UNCHANGED <<algorithms, selectedAlgoId, symbol, timeframe, parameters, runState,
                   activeTab, result, notice, loadPc, runs, enteredText,
                   pollOutcome, latestRun>>

\* The component as mounted: the useState initial values, with the effect's
\* fetchAlgorithms call in flight.
UiInit ==
    /\ algorithms = mockAlgorithms
    /\ selectedAlgoId = mockAlgorithms[1].id
    /\ symbol = TextOr(mockAlgorithms[1].defaults.symbol, SPY)
    /\ timeframe = TextOr(mockAlgorithms[1].defaults.timeframe, DefaultTimeframe)
    /\ parameters = cloneParameters(mockAlgorithms[1].defaults.parameters)
    /\ runState = "idle"
    /\ activeTab = "chart"
    /\ result = NullResult
    /\ notice = NoticeNone
    /\ loadPc = "pending"
    /\ isCancelled = FALSE
    /\ runs = EmptyBag
    /\ enteredText = Undefined
    /\ pollOutcome = NoOutcome
    /\ latestRun = NotStarted

(***************************************************************************)
(* The job service: JobManager, JobStore and the background task of each   *)
(* job, as spec.md describes them (sections 3, 4.1, 4.4, 4.5 and 7).       *)
(***************************************************************************)
\* The ids of the service's manifest.
ManifestIds == {"rsi_ma_cross", "trend_follow_ema"}

\* The run requests tried: a valid one, and one for each way of being
\* invalid: a reversed date range, a blank symbol, an unknown algorithm
\* (dates as day numbers).
ValidRequest ==
    [algorithmId |-> "rsi_ma_cross", symbol |-> <<" ", "s", "p", "y">>,
     startDate |-> 1, endDate |-> 1]

CreateRequests ==
    {ValidRequest,
     [ValidRequest EXCEPT !.startDate = 2],
     [ValidRequest EXCEPT !.symbol = <<" ">>],
     [ValidRequest EXCEPT !.algorithmId = "no_such_algorithm"]}

\* ConfigGenerator.build's ValidationError cases.
RequestInvalid(req) ==
    \/ req.startDate > req.endDate
    \/ Trim(req.symbol) = <<>>
    \/ req.algorithmId \notin ManifestIds

NoValue == "absent"

\* Mutant: the id is not generated anew, the last job's id is given again.
NewJobIdReused == IF jobs = <<>> THEN 1 ELSE jobs[Len(jobs)].id

\* Job.id, generated at creation: the next free number of the store.
NewJobId == Len(jobs) + 1

\* JobManager.create: the new Job record, status queued, the engine not yet
\* spawned.
NewJob(req) ==
    [id |-> NewJobId,
     spawns |-> 0,
     algorithmId |-> req.algorithmId,
     symbol |-> ToUpperCase(Trim(req.symbol)),
     startDate |-> req.startDate,
     endDate |-> req.endDate,
     status |-> "queued",
     result |-> NoValue,
     error |-> NoValue,
     written |-> <<"queued">>]

\* A write of the background task that owns the job.
Written(job, status, res, err) ==
    [job EXCEPT !.status = status, !.result = res, !.error = err,
                !.written = Append(job.written, status)]

\* Mutant: an invalid request is queued all the same.
JobManagerCreateUnvalidated(req) ==
    /\ Len(jobs) < MaxJobs
    /\ jobs' = Append(jobs, NewJob(req))
    /\ observed' = Append(observed, <<>>)
    /\ lastCall' = [op |-> "create", request |-> req, jobId |-> NewJobId,
                    answer |-> "jobId", snapshot |-> <<>>,
                    jobsBefore |-> Len(jobs)]
    /\ UNCHANGED <<coerceVars, uiVars, clientVars, panelVars>>

\* JobManager.create(request)
JobManagerCreate(req) ==
    /\ UNCHANGED <<coerceVars, uiVars, clientVars, panelVars>>
    /\ IF RequestInvalid(req)
       THEN /\ lastCall' = [op |-> "create", request |-> req, jobId |-> 0,
                            answer |-> "ValidationError", snapshot |-> <<>>,
                            jobsBefore |-> Len(jobs)]
            /\ UNCHANGED <<jobs, observed>>
       ELSE /\ Len(jobs) < MaxJobs
            /\ jobs' = Append(jobs, NewJob(req))
            /\ observed' = Append(observed, <<>>)
            /\ lastCall' = [op |-> "create", request |-> req, jobId |-> NewJobId,
                            answer |-> "jobId", snapshot |-> <<>>,
                            jobsBefore |-> Len(jobs)]

\* The background task sets running right before ProcessRunner.launch.
BackgroundLaunch(id) ==
    /\ UNCHANGED <<coerceVars, uiVars, clientVars, panelVars>>
    /\ jobs[id].status = "queued"
    /\ jobs' = [jobs EXCEPT ![id] =
                    [Written(jobs[id], "running", NoValue, NoValue)
                        EXCEPT !.spawns = jobs[id].spawns + 1]]
    /\ UNCHANGED <<observed, lastCall>>

\* Mutant: the result is stored while the job still says running.
BackgroundCompleteEarlyResult(id) ==
    /\ UNCHANGED <<coerceVars, uiVars, clientVars, panelVars>>
    /\ jobs[id].status = "running" /\ jobs[id].result = NoValue
    /\ jobs' = [jobs EXCEPT ![id].result = "result"]
    /\ UNCHANGED <<observed, lastCall>>

\* The engine exited and ResultNormalizer succeeded.
BackgroundComplete(id) ==
    /\ UNCHANGED <<coerceVars, uiVars, clientVars, panelVars>>
    /\ jobs[id].status = "running"
    /\ jobs' = [jobs EXCEPT ![id] = Written(jobs[id], "completed", "result", NoValue)]
    /\ UNCHANGED <<observed, lastCall>>

\* Mutant: a failure is recorded whatever the job's status, also after it
\* completed.
BackgroundFailAnytime(id, err) ==
    /\ UNCHANGED <<coerceVars, uiVars, clientVars, panelVars>>
    /\ jobs[id].status # "failed"
    /\ jobs' = [jobs EXCEPT ![id] = Written(jobs[id], "failed", NoValue, err)]
    /\ UNCHANGED <<observed, lastCall>>

\* Mutant: a failed execution is not recorded, the engine is spawned again.
BackgroundFailRetried(id, err) ==
    /\ UNCHANGED <<coerceVars, uiVars, clientVars, panelVars>>
    /\ jobs[id].status = "running" /\ jobs[id].spawns < 2
    /\ jobs' = [jobs EXCEPT ![id].spawns = jobs[id].spawns + 1]
    /\ UNCHANGED <<observed, lastCall>>

\* ProcessRunner reported a failure (non-zero exit, output artifact missing),
\* or ResultNormalizer raised.
BackgroundFail(id, err) ==
    /\ UNCHANGED <<coerceVars, uiVars, clientVars, panelVars>>
    /\ jobs[id].status = "running"
    /\ jobs' = [jobs EXCEPT ![id] = Written(jobs[id], "failed", NoValue, err)]
    /\ UNCHANGED <<observed, lastCall>>

\* A reader's sequence with one more status seen.
Seen(seq, status) ==
    IF seq # <<>> /\ seq[Len(seq)] = status THEN seq ELSE Append(seq, status)

\* The store's record of the job with this id, if there is one.
JobOfId(id) == {i \in 1..Len(jobs) : jobs[i].id = id}

\* Mutant: get answers with the job as it was created.
JobManagerGetStale(id) ==
    /\ UNCHANGED <<coerceVars, uiVars, clientVars, panelVars>>
    /\ id \in 1..Len(jobs)
    /\ lastCall' = [op |-> "get", request |-> <<>>, jobId |-> id,
                    answer |-> "queued",
                    snapshot |-> <<[jobs[id] EXCEPT !.status = "queued"]>>,
                    jobsBefore |-> Len(jobs)]
    /\ UNCHANGED <<jobs, observed>>

\* JobManager.get(jobId), as every reader calls it (pollBacktest's
\* getBacktest among them).
JobManagerGet(id) ==
    /\ UNCHANGED <<coerceVars, uiVars, clientVars, panelVars>>
    /\ IF JobOfId(id) # {}
       THEN LET i == CHOOSE k \in JobOfId(id) : TRUE
            IN  /\ observed' = [observed EXCEPT ![i] = Seen(observed[i], jobs[i].status)]
                /\ lastCall' = [op |-> "get", request |-> <<>>, jobId |-> id,
                                answer |-> jobs[i].status, snapshot |-> <<jobs[i]>>,
                                jobsBefore |-> Len(jobs)]
       ELSE /\ lastCall' = [op |-> "get", request |-> <<>>, jobId |-> id,
                            answer |-> "NotFoundError", snapshot |-> <<>>,
                            jobsBefore |-> Len(jobs)]
            /\ UNCHANGED observed
    /\ UNCHANGED jobs

JobErrors == {"ProcessError", "NormalizationError"}

JobsInit ==
    /\ jobs = <<>>
    /\ observed = <<>>
    /\ lastCall = [op |-> "none", request |-> <<>>, jobId |-> 0,
                   answer |-> "none", snapshot |-> <<>>, jobsBefore |-> 0]

JobsNext ==
    \/ \E req \in CreateRequests : JobManagerCreate(req)
    \/ \E id \in 1..Len(jobs) : BackgroundLaunch(id)
    \/ \E id \in 1..Len(jobs) : BackgroundComplete(id)
    \/ \E id \in 1..Len(jobs), err \in JobErrors : BackgroundFail(id, err)
    \/ \E id \in 1..(MaxJobs + 1) : JobManagerGet(id)

(***************************************************************************)
(* The parameter editor: ParameterControls and its handlers in App.        *)
(***************************************************************************)
\* The texts typed into a parameter's input.
ParamTexts == {<<>>, <<"7">>, <<"x">>, <<"2", "1">>}

\* ParameterControls renders one row per entry of `defaults`, and disables
\* its inputs and buttons while a run is in flight.
ControlsEnabled == runState # "running"
EditableKeys == DOMAIN parameterDefaults

\* { ...prev, [key]: value }
Spread(prev, key, value) ==
    [k \in (DOMAIN prev) \cup {key} |-> IF k = key THEN value ELSE prev[k]]

\* handleParameterChange(key, event.target.value)
handleParameterChange(key, value) ==
    /\ UNCHANGED <<coerceVars, jobVars, clientVars, panelVars>>
    /\ ControlsEnabled /\ key \in EditableKeys
    /\ parameters' = Spread(parameters, key, Str(value))
    /\ UNCHANGED <<algorithms, selectedAlgoId, symbol, timeframe, runState,
                   activeTab, result, notice, loadPc, isCancelled, runs, enteredText, pollOutcome, latestRun>>

\* The value handleParameterReset writes for a default.
ResetValue(defaultValue) ==
    IF defaultValue = Undefined \/ defaultValue = Null THEN EmptyString
    ELSE IF defaultValue.t = "num" THEN Str(NumberToString(defaultValue.n))
    ELSE defaultValue

\* Mutant: Reset writes the default as it is, a number staying a number, and
\* drops the other parameters.
HandleParameterResetAlone(key) ==
    /\ UNCHANGED <<coerceVars, jobVars, clientVars, panelVars>>
    /\ ControlsEnabled /\ key \in EditableKeys
    /\ parameters' = [k \in {key} |-> Get(parameterDefaults, key)]
    /\ UNCHANGED <<algorithms, selectedAlgoId, symbol, timeframe, runState,
                   activeTab, result, notice, loadPc, isCancelled, runs, enteredText, pollOutcome, latestRun>>

\* handleParameterReset(key)
handleParameterReset(key) ==
    /\ UNCHANGED <<coerceVars, jobVars, clientVars, panelVars>>
    /\ ControlsEnabled /\ key \in EditableKeys
    /\ parameters' = Spread(parameters, key, ResetValue(Get(parameterDefaults, key)))
    /\ UNCHANGED <<algorithms, selectedAlgoId, symbol, timeframe, runState,
                   activeTab, result, notice, loadPc, isCancelled, runs, enteredText, pollOutcome, latestRun>>

\* handleParameterResetAll(): the button exists when defaults has entries.
handleParameterResetAll ==
    /\ UNCHANGED <<coerceVars, jobVars, clientVars, panelVars>>
    /\ ControlsEnabled /\ EditableKeys # {}
    /\ parameters' = cloneParameters(parameterDefaults)
    /\ UNCHANGED <<algorithms, selectedAlgoId, symbol, timeframe, runState,
                   activeTab, result, notice, loadPc, isCancelled, runs, enteredText, pollOutcome, latestRun>>

ParamsNext ==
    \/ \E key \in EditableKeys, value \in ParamTexts : handleParameterChange(key, value)
    \/ \E key \in EditableKeys : handleParameterReset(key)
    \/ handleParameterResetAll
    \/ \E i \in 1..Len(algorithms) : onAlgoChange(algorithms[i].id)
    \/ \E data \in ManifestBodies : FetchAlgorithmsResolved(data)
    \/ FetchAlgorithmsRejected

(***************************************************************************)
(* The REST client (ui/src/api/client.js).  Strings are TLA+ strings; an   *)
(* optional value is a sequence of length 0 or 1.                          *)
(***************************************************************************)
API_BASE_URL == "http://localhost:8000"

NotGiven == <<>>
Given(value) == <<value>>

\* if (timeframe): given, and not the empty string
Truthy(opt) == opt # NotGiven /\ opt[1] # ""

\* --- the bodies of a Response, as response.json() finds them
UndefinedDetail == [type |-> "undefined", text |-> ""]
StringDetail(text) == [type |-> "string", text |-> text]
NumberDetail == [type |-> "number", text |-> "42"]

Unparseable == [kind |-> "unparseable", detail |-> UndefinedDetail, data |-> "none"]
JsonNull == [kind |-> "null", detail |-> UndefinedDetail, data |-> "none"]
JsonArray == [kind |-> "array", detail |-> UndefinedDetail, data |-> "manifest"]
JsonObject(detail, data) == [kind |-> "object", detail |-> detail, data |-> data]

ResponseBodies ==
    {Unparseable, JsonNull, JsonArray}
        \cup {JsonObject(d, "job") :
                d \in {UndefinedDetail, StringDetail("missing"), StringDetail(""),
                       NumberDetail}}

StatusTexts == {"", "Not Found"}

Responses == [ok : BOOLEAN, statusText : StatusTexts, body : ResponseBodies]

NoResponse == <<>>

\* typeof data?.detail
TypeofDetail(body) ==
    IF body.kind \in {"null", "array"} THEN "undefined" ELSE body.detail.type

RequestFailed == "Request failed"
\* The message of the SyntaxError response.json() rejects with.
JsonSyntaxError == "Unexpected end of JSON input"
\* The message of the TypeError fetch rejects with.
FetchFailed == "Failed to fetch"

\* Mutant: response.json() is awaited outside the try block.
SafeParseErrorUnguarded(resp) ==
    IF resp.body.kind = "unparseable" THEN JsonSyntaxError
    ELSE IF TypeofDetail(resp.body) = "string" THEN resp.body.detail.text
    ELSE IF resp.statusText # "" THEN resp.statusText
    ELSE RequestFailed

safeParseError(resp) ==
    IF resp.body.kind # "unparseable" /\ TypeofDetail(resp.body) = "string"
    THEN resp.body.detail.text
    ELSE IF resp.statusText # "" THEN resp.statusText
    ELSE RequestFailed

\* --- the promise a client function returns
Pending == [kind |-> "pending", value |-> Unparseable, message |-> ""]
Resolved(body) == [kind |-> "resolved", value |-> body, message |-> ""]
Rejected(message) == [kind |-> "rejected", value |-> Unparseable, message |-> message]

\* What is left of request() and of fetchMarketData once response.json() has
\* settled: throw new Error(message), or return the parsed body.
SettleResponse(resp) ==
    IF ~resp.ok THEN Rejected(safeParseError(resp))
    ELSE IF resp.body.kind = "unparseable" THEN Rejected(JsonSyntaxError)
    ELSE Resolved(resp.body)

\* --- the fetch calls
NoBody == [json |-> <<>>, sent |-> FALSE]
DefaultMethod == "GET"
JsonContentType == {<<"Content-Type", "application/json">>}
NoHeaders == {}

\* JSON.stringify(payload): the keys whose value is undefined are left out.
JSONStringify(payload) ==
    [json |-> [k \in {x \in DOMAIN payload : payload[x] # NotGiven} |-> payload[k][1]],
     sent |-> TRUE]

Url(path, query) == [base |-> API_BASE_URL, path |-> path, query |-> query]

\* request(path, options): the arguments of its fetch call.
request(path, method, body) ==
    [url |-> Url(path, <<>>), method |-> method, headers |-> JsonContentType,
     body |-> body]

fetchAlgorithms == request(<<"algorithms">>, DefaultMethod, NoBody)

createBacktest(payload) == request(<<"backtests">>, "POST", JSONStringify(payload))

getBacktest(jobId) == request(<<"backtests", jobId>>, DefaultMethod, NoBody)

\* Mutant: the timeframe parameter is set whether a timeframe is given or not.
MarketDataQueryAlways(symbolArg, timeframeArg) ==
    <<<<"symbol", symbolArg>>,
      <<"timeframe", IF timeframeArg = NotGiven THEN "undefined" ELSE timeframeArg[1]>>>>

\* url.searchParams of fetchMarketData
MarketDataQuery(symbolArg, timeframeArg) ==
    <<<<"symbol", symbolArg>>>>
        \o (IF Truthy(timeframeArg) THEN <<<<"timeframe", timeframeArg[1]>>>> ELSE <<>>)

\* fetchMarketData({ symbol, timeframe }): fetch(url.toString())
fetchMarketData(symbolArg, timeframeArg) ==
    [url |-> Url(<<"market-data">>, MarketDataQuery(symbolArg, timeframeArg)),
     method |-> DefaultMethod, headers |-> NoHeaders, body |-> NoBody]

\* --- the calls tried
ClientPayloads ==
    {[algorithmId |-> Given("rsi_ma_cross"), symbol |-> Given("SPY"),
      startDate |-> Given("2018-01-01")],
     [algorithmId |-> Given("rsi_ma_cross"), symbol |-> Given(""),
      startDate |-> NotGiven]}

ClientJobIds == {"123", "job-1"}
ClientSymbols == {"SPY", "QQQ"}
ClientTimeframes == {Given("1D"), Given(""), NotGiven}

NoPayload == [algorithmId |-> NotGiven, symbol |-> NotGiven, startDate |-> NotGiven]

CallOf(fn, payload, jobId, symbolArg, timeframeArg) ==
    [fn |-> fn, payload |-> payload, jobId |-> jobId, symbol |-> symbolArg,
     timeframe |-> timeframeArg]

ClientCalls ==
    {CallOf("fetchAlgorithms", NoPayload, "", "", NotGiven)}
        \cup {CallOf("createBacktest", p, "", "", NotGiven) : p \in ClientPayloads}
        \cup {CallOf("getBacktest", NoPayload, id, "", NotGiven) : id \in ClientJobIds}
        \cup {CallOf("fetchMarketData", NoPayload, "", sy, tf) :
                sy \in ClientSymbols, tf \in ClientTimeframes}

NoCall == CallOf("none", NoPayload, "", "", NotGiven)

\* The fetch a client function issues.
FetchOf(call) ==
    CASE call.fn = "fetchAlgorithms" -> fetchAlgorithms
      [] call.fn = "createBacktest" -> createBacktest(call.payload)
      [] call.fn = "getBacktest" -> getBacktest(call.jobId)
      [] call.fn = "fetchMarketData" -> fetchMarketData(call.symbol, call.timeframe)

\* A client function is called: it runs up to `await fetch(...)`.
ClientCall(call) ==
    /\ UNCHANGED <<coerceVars, uiVars, jobVars, panelVars>>
    /\ clientPc \in {"idle", "settled"}
    /\ clientCall' = call
    /\ fetched' = <<FetchOf(call)>>
    /\ response' = NoResponse
    /\ outcome' = Pending
    /\ clientPc' = "fetch"

\* fetch resolved with a Response: response.json() is called, on either
\* branch.
FetchResolved(resp) ==
    /\ UNCHANGED <<coerceVars, uiVars, jobVars, panelVars>>
    /\ clientPc = "fetch"
    /\ response' = <<resp>>
    /\ clientPc' = "json"
    /\ UNCHANGED <<clientCall, fetched, outcome>>

\* fetch rejected (the network failed): the function rejects with that error.
FetchRejected ==
    /\ UNCHANGED <<coerceVars, uiVars, jobVars, panelVars>>
    /\ clientPc = "fetch"
    /\ outcome' = Rejected(FetchFailed)
    /\ clientPc' = "settled"
    /\ UNCHANGED <<clientCall, fetched, response>>

\* response.json() settled: the function's promise settles.
JsonSettled ==
    /\ UNCHANGED <<coerceVars, uiVars, jobVars, panelVars>>
    /\ clientPc = "json"
    /\ outcome' = SettleResponse(response[1])
    /\ clientPc' = "settled"
    /\ UNCHANGED <<clientCall, fetched, response>>

ClientIdle ==
    /\ clientPc = "idle"
    /\ clientCall = NoCall
    /\ fetched = <<>>
    /\ response = NoResponse
    /\ outcome = Pending

ClientNext ==
    \/ \E call \in ClientCalls : ClientCall(call)
    \/ \E resp \in Responses : FetchResolved(resp)
    \/ FetchRejected
    \/ JsonSettled

(***************************************************************************)
(* IndicatorsPanel({ indicators }) of App.jsx, given result?.indicators.   *)
(***************************************************************************)
\* An element of an indicators array: null, or an object whose `data` is an
\* array of that many points, or is no array at all.
NullItem == [kind |-> "null", dataIsArray |-> FALSE, points |-> 0]
Item(dataIsArray, points) ==
    [kind |-> "object", dataIsArray |-> dataIsArray, points |-> points]

IndicatorItems == {NullItem, Item(FALSE, 0), Item(TRUE, 0), Item(TRUE, 2)}

RECURSIVE ItemLists(_)
ItemLists(n) ==
    IF n = 0 THEN {<<>>}
    ELSE ItemLists(n - 1)
            \cup {list \o <<item>> : list \in ItemLists(n - 1), item \in IndicatorItems}

IndicatorKeys == {"rsi", "rsiSma"}

NoEntries == [k \in {} |-> 0]

\* result?.indicators: absent, an array of items, or a mapping from
\* indicator key to a series of that many points.
IndicatorsAbsent == [kind |-> "absent", items |-> <<>>, entries |-> NoEntries]
IndicatorsArray(items) == [kind |-> "array", items |-> items, entries |-> NoEntries]
IndicatorsMapping(entries) == [kind |-> "mapping", items |-> <<>>, entries |-> entries]

IndicatorInputs ==
    {IndicatorsAbsent}
        \cup {IndicatorsArray(items) : items \in ItemLists(MaxItems)}
        \cup {IndicatorsMapping(entries) :
                entries \in UNION {[keys -> {0, 2}] : keys \in SUBSET IndicatorKeys}}

\* What the panel renders: the placeholder, or one chart per series.
Placeholder == [placeholder |-> TRUE, charts |-> <<>>]
IndicatorGrid(charts) == [placeholder |-> FALSE, charts |-> charts]
NotRendered == [placeholder |-> FALSE, charts |-> <<>>]

\* Array.isArray(item?.data) && item.data.length
Usable(item) == item.kind = "object" /\ item.dataIsArray /\ item.points > 0

\* result?.indicators ?? []
IndicatorsProp(indicators) ==
    IF indicators.kind = "absent" THEN IndicatorsArray(<<>>) ELSE indicators

IndicatorsPanel(indicators) ==
    IF indicators.kind # "array" \/ Len(indicators.items) = 0 THEN Placeholder
    ELSE LET usable == SelectSeq(indicators.items, Usable)
         IN  IF Len(usable) = 0 THEN Placeholder
             ELSE IndicatorGrid([i \in 1..Len(usable) |-> usable[i].points])

\* The Indicators tab renders the panel for the result.
RenderIndicators ==
    /\ UNCHANGED <<coerceVars, uiVars, jobVars, clientVars>>
    /\ panelPc = "input"
    /\ panelShown' = IndicatorsPanel(IndicatorsProp(panelInput))
    /\ panelPc' = "rendered"
    /\ UNCHANGED <<panelInput, metricsResult, metricCards, tradesProp, markers>>

(***************************************************************************)
(* The metric cards of App (`metrics`, given `result`).  A number that may *)
(* be missing is NotGiven or Given(n).                                     *)
(***************************************************************************)
\* value ?? 0
OrZero(opt) == IF opt = NotGiven THEN 0 ELSE opt[1]

\* currencyFormatter.format(n), percentFormatter.format(n) and a number shown
\* as it is.
CurrencyFormat(n) == [fmt |-> "currency", n |-> n]
PercentFormat(n) == [fmt |-> "percent", n |-> n]
PlainNumber(n) == [fmt |-> "plain", n |-> n]

Card(label, value) == [label |-> label, value |-> value]
NoCard == [label |-> "", value |-> PlainNumber(0)]
IsCard(card) == card # NoCard

NoMetrics == <<>>
MetricsSection(netProfit, winRate, totalTrades, maxDrawdown) ==
    <<[netProfit |-> netProfit, winRate |-> winRate, totalTrades |-> totalTrades,
       maxDrawdown |-> maxDrawdown]>>

\* A result: null, or an object with its own netProfit and netProfitPercent
\* fields and its metrics section, each of which may be missing.
NullMetricResult ==
    [isNull |-> TRUE, netProfit |-> NotGiven, netProfitPercent |-> NotGiven,
     metrics |-> NoMetrics]
MetricResult(netProfit, netProfitPercent, metrics) ==
    [isNull |-> FALSE, netProfit |-> netProfit, netProfitPercent |-> netProfitPercent,
     metrics |-> metrics]

MetricResults ==
    {NullMetricResult} \cup
    {MetricResult(np, pct, m) :
        np \in {NotGiven, Given(3)}, pct \in {NotGiven, Given(1)},
        m \in {NoMetrics} \cup
              {MetricsSection(a, b, c, d) :
                  a \in {NotGiven, Given(7)}, b \in {NotGiven, Given(0), Given(1)},
                  c \in {NotGiven, Given(4)}, d \in {NotGiven, Given(2)}}}

\* Mutant: every card is read from the metrics section.
NetProfitOfMetrics(res) == res.metrics[1].netProfit

\* The field the Net P&L card reads: result.netProfit.
NetProfitOf(res) == res.netProfit

\* const metrics = result?.metrics ? [...].filter(Boolean) : []
MetricCards(res) ==
    IF res.isNull \/ res.metrics = NoMetrics THEN <<>>
    ELSE SelectSeq(
            <<Card("Net P&L", CurrencyFormat(OrZero(NetProfitOf(res)))),
              IF res.netProfitPercent # NotGiven
              THEN Card("Net %", PercentFormat(res.netProfitPercent[1]))
              ELSE NoCard,
              Card("Win Rate", PercentFormat(OrZero(res.metrics[1].winRate))),
              Card("Total Trades", PlainNumber(OrZero(res.metrics[1].totalTrades))),
              Card("Max Drawdown", PercentFormat(OrZero(res.metrics[1].maxDrawdown)))>>,
            IsCard)

(***************************************************************************)
(* buildMarkers(trades) of components/PriceChart.jsx.                      *)
(***************************************************************************)
\* The times of a trade: undefined, 0 (both falsy) or a positive time.
TradeTimes == {Undefined} \cup {Num(n) : n \in 0..3}
TradeQuantities == {NotGiven, Given(10)}

Trade(entryTime, exitTime, quantity) ==
    [entryTime |-> entryTime, exitTime |-> exitTime, quantity |-> quantity]

Trades == {Trade(a, b, q) : a \in TradeTimes, b \in TradeTimes, q \in TradeQuantities}

RECURSIVE TradeLists(_)
TradeLists(n) ==
    IF n = 0 THEN {<<>>}
    ELSE LET shorter == TradeLists(n - 1)
         IN  shorter \cup {Append(list, trade) : list \in {l \in shorter : Len(l) = n - 1},
                                                  trade \in Trades}

\* The trades prop: an array of trades, or something that is not an array.
NotAnArray == [isArray |-> FALSE, items |-> <<>>]
TradesArray(items) == [isArray |-> TRUE, items |-> items]

\* A time is truthy unless it is undefined or 0.
TruthyTime(time) == time.t = "num" /\ time.n # 0

\* `Buy ${trade.quantity ?? ''}`.trim()
MarkerText(side, quantity) ==
    IF quantity = NotGiven THEN <<side>> ELSE <<side, quantity[1]>>

EntryMarker(trade) ==
    [time |-> trade.entryTime, position |-> "belowBar", shape |-> "arrowUp",
     text |-> MarkerText("Buy", trade.quantity)]
ExitMarker(trade) ==
    [time |-> trade.exitTime, position |-> "aboveBar", shape |-> "arrowDown",
     text |-> MarkerText("Sell", trade.quantity)]

\* Mutant: the exit marker of a trade is pushed before its entry marker.
MarkersOfTradeExitFirst(trade) ==
    (IF TruthyTime(trade.exitTime) THEN <<ExitMarker(trade)>> ELSE <<>>)
    \o (IF TruthyTime(trade.entryTime) THEN <<EntryMarker(trade)>> ELSE <<>>)

\* The body of the forEach callback: what one trade pushes.
MarkersOfTrade(trade) ==
    (IF TruthyTime(trade.entryTime) THEN <<EntryMarker(trade)>> ELSE <<>>)
    \o (IF TruthyTime(trade.exitTime) THEN <<ExitMarker(trade)>> ELSE <<>>)

RECURSIVE PushAll(_)
PushAll(items) ==
    IF items = <<>> THEN <<>>
    ELSE MarkersOfTrade(Head(items)) \o PushAll(Tail(items))

buildMarkers(trades) ==
    IF ~trades.isArray THEN <<>> ELSE PushAll(trades.items)

(***************************************************************************)
(* One rendering of a panel: App computes the cards, PriceChart the        *)
(* markers (useMemo) that its effect hands to series.setMarkers.           *)
(***************************************************************************)
RenderMetrics ==
    /\ UNCHANGED <<coerceVars, uiVars, jobVars, clientVars>>
    /\ panelPc = "input"
    /\ metricCards' = MetricCards(metricsResult)
    /\ panelPc' = "rendered"
    /\ UNCHANGED <<panelInput, panelShown, metricsResult, tradesProp, markers>>

RenderMarkers ==
    /\ UNCHANGED <<coerceVars, uiVars, jobVars, clientVars>>
    /\ panelPc = "input"
    /\ markers' = buildMarkers(tradesProp)
    /\ panelPc' = "rendered"
    /\ UNCHANGED <<panelInput, panelShown, metricsResult, metricCards, tradesProp>>

NoPanelInput ==
    /\ panelInput = IndicatorsAbsent
    /\ panelShown = NotRendered
    /\ metricsResult = NullMetricResult
    /\ metricCards = <<>>
    /\ tradesProp = NotAnArray
    /\ markers = <<>>

PanelIdle == NoPanelInput /\ panelPc = "off"

PanelInit ==
    /\ panelInput \in IndicatorInputs
    /\ panelShown = NotRendered
    /\ metricsResult = NullMetricResult
    /\ metricCards = <<>>
    /\ tradesProp = NotAnArray
    /\ markers = <<>>
    /\ panelPc = "input"

MetricsInit ==
    /\ panelInput = IndicatorsAbsent
    /\ panelShown = NotRendered
    /\ metricsResult \in MetricResults
    /\ metricCards = <<>>
    /\ tradesProp = NotAnArray
    /\ markers = <<>>
    /\ panelPc = "input"

MarkersInit ==
    /\ panelInput = IndicatorsAbsent
    /\ panelShown = NotRendered
    /\ metricsResult = NullMetricResult
    /\ metricCards = <<>>
    /\ tradesProp \in {NotAnArray} \cup {TradesArray(items) : items \in TradeLists(MaxTrades)}
    /\ markers = <<>>
    /\ panelPc = "input"

(***************************************************************************)
(* The specifications.                                                     *)
(***************************************************************************)
CoerceInit ==
    /\ cvalues \in Objects(ParamKeys, {Str(t) : t \in Texts})
    /\ cdefaults \in Objects(ParamKeys, DefaultValues)
    /\ cresult = NoResult
    /\ cpc = "input"

CoerceIdle ==
    /\ cvalues = EmptyObject
    /\ cdefaults = EmptyObject
    /\ cresult = NoResult
    /\ cpc = "off"

\* payload.parameters = coerceParameterTypes(parameters, parameterDefaults)
Coerce ==
    /\ cpc = "input"
    /\ cresult' = coerceParameterTypes(cvalues, cdefaults)
    /\ cpc' = "done"
    /\ UNCHANGED <<cvalues, cdefaults>>
    /\ UNCHANGED <<uiVars, jobVars, clientVars, panelVars>>

\* The resolved parameters given to coerceParameterTypes once more, with the
\* same defaults.
CoerceAgain ==
    /\ cpc = "done"
    /\ cvalues' = cresult
    /\ cresult' = coerceParameterTypes(cresult, cdefaults)
    /\ cpc' = "again"
    /\ UNCHANGED cdefaults
    /\ UNCHANGED <<uiVars, jobVars, clientVars, panelVars>>

\* Caller values of every type: texts, null, numbers and NaN.
CallerValues ==
    {Str(t) : t \in TextsUpTo(MaxLen - 1) \cup SampleTexts} \cup {Null, Num(0), Num(7), NaN}

IdempotenceInit ==
    /\ cvalues \in Objects(ParamKeys, CallerValues)
    /\ cdefaults \in Objects(ParamKeys, DefaultValues)
    /\ cresult = NoResult
    /\ cpc = "input"
    /\ UiInit /\ JobsInit /\ ClientIdle /\ PanelIdle

\* coerceParameterTypes applied, then applied to its own result.
SpecIdempotence == IdempotenceInit /\ [][Coerce \/ CoerceAgain]_vars

\* The default-parameter maps of the round trip: finite numbers, strings
\* (empty, blank, numeric-looking) and null.
RoundTripDefaults ==
    {Num(14), Num(0), Num(0 - 3), Str(<<>>), Str(<<"a">>), Str(<<"2", "1">>),
     Str(<<" ">>), Null}

\* parameters = cloneParameters(defaults), as the load, an algorithm change
\* and Reset All leave them.
RoundTripInit ==
    /\ cdefaults \in Objects(ParamKeys, RoundTripDefaults)
    /\ cvalues = cloneParameters(cdefaults)
    /\ cresult = NoResult
    /\ cpc = "input"
    /\ UiInit /\ JobsInit /\ ClientIdle /\ PanelIdle

\* coerceParameterTypes applied to the unedited copy of the defaults.
SpecRoundTrip == RoundTripInit /\ [][Coerce]_vars

CoerceSpecInit == CoerceInit /\ UiInit /\ JobsInit /\ ClientIdle /\ PanelIdle

\* coerceParameterTypes applied to every input within the bounds.
SpecCoerce == CoerceSpecInit /\ [][Coerce]_vars

JobsSpecInit == CoerceIdle /\ UiInit /\ JobsInit /\ ClientIdle /\ PanelIdle

\* The job service with its callers and background tasks.
SpecJobs == JobsSpecInit /\ [][JobsNext]_vars

ClientSpecInit == CoerceIdle /\ UiInit /\ JobsInit /\ ClientIdle /\ PanelIdle

\* The REST client, one call after the other, against every response.
SpecClient == ClientSpecInit /\ [][ClientNext]_vars

PanelSpecInit == CoerceIdle /\ UiInit /\ JobsInit /\ ClientIdle /\ PanelInit

\* IndicatorsPanel rendered for every indicators value within the bounds.
SpecIndicators == PanelSpecInit /\ [][RenderIndicators]_vars

MetricsSpecInit == CoerceIdle /\ UiInit /\ JobsInit /\ ClientIdle /\ MetricsInit

\* The metric cards of every result.
SpecMetrics == MetricsSpecInit /\ [][RenderMetrics]_vars

MarkersSpecInit == CoerceIdle /\ UiInit /\ JobsInit /\ ClientIdle /\ MarkersInit

\* The markers of every trades prop of up to MaxTrades trades.
SpecMarkers == MarkersSpecInit /\ [][RenderMarkers]_vars

(***************************************************************************)
(* Claims about the job service (SpecJobs).                                *)
(***************************************************************************)
LifecyclePrefixes ==
    {<<"queued">>, <<"queued", "running">>,
     <<"queued", "running", "completed">>, <<"queued", "running", "failed">>}

TerminalStatuses == {"completed", "failed"}

\* a is b with some elements left out.
RECURSIVE IsSubsequence(_, _)
IsSubsequence(a, b) ==
    IF a = <<>> THEN TRUE
    ELSE IF b = <<>> THEN FALSE
    ELSE IF Head(a) = Head(b) THEN IsSubsequence(Tail(a), Tail(b))
    ELSE IsSubsequence(a, Tail(b))

JobIds == 1..Len(jobs)

\* C1: the statuses written for a job, and those any reader observes, follow
\* queued, running, then completed or failed: none skipped backwards, none
\* repeated after it was left, none after a terminal one, and completed is
\* never observed before running was written.
C1_StatusLifecycle ==
    \A id \in JobIds :
        /\ jobs[id].written \in LifecyclePrefixes
        /\ jobs[id].status = jobs[id].written[Len(jobs[id].written)]
        /\ IsSubsequence(observed[id], jobs[id].written)
        /\ \A i \in 1..Len(observed[id]) :
                /\ \A j \in 1..Len(observed[id]) :
                        observed[id][i] = observed[id][j] => i = j
                /\ observed[id][i] \in TerminalStatuses => i = Len(observed[id])
                /\ observed[id][i] = "completed" =>
                        \E k \in 1..Len(jobs[id].written) :
                            /\ jobs[id].written[k] = "running"
                            /\ k < Len(jobs[id].written)

\* A reader that polled a job through its whole life.
C1_Witness ==
    \E id \in JobIds :
        /\ jobs[id].written = <<"queued", "running", "completed">>
        /\ observed[id] = <<"queued", "running", "completed">>

\* C4: result is present exactly when the status is completed, error exactly
\* when it is failed, a queued or running job has neither, and a terminal
\* job's record never changes again.
C4_ResultIffCompleted ==
    /\ [](\A id \in JobIds :
            /\ jobs[id].result # NoValue <=> jobs[id].status = "completed"
            /\ jobs[id].error # NoValue <=> jobs[id].status = "failed")
    /\ [][\A id \in JobIds :
            jobs[id].status \in TerminalStatuses =>
                id \in 1..Len(jobs') /\ jobs'[id] = jobs[id]]_vars

\* One job completed with its result, another failed with its error.
C4_Witness ==
    \E a \in JobIds, b \in JobIds :
        /\ jobs[a].status = "completed" /\ jobs[a].result = "result"
        /\ jobs[a].error = NoValue
        /\ jobs[b].status = "failed" /\ jobs[b].error = "ProcessError"
        /\ jobs[b].result = NoValue

\* C10: create answers ValidationError, and instantiates no job, whenever the
\* request's startDate is later than its endDate, its symbol is empty after
\* trimming or its algorithmId is not in the manifest; the store holds only
\* jobs of valid requests.
C10_InvalidRequestRejected ==
    /\ lastCall.op = "create" =>
            IF RequestInvalid(lastCall.request)
            THEN /\ lastCall.answer = "ValidationError"
                 /\ Len(jobs) = lastCall.jobsBefore
            ELSE /\ lastCall.answer = "jobId"
                 /\ Len(jobs) = lastCall.jobsBefore + 1
                 /\ lastCall.jobId = Len(jobs)
    /\ \A id \in JobIds :
            /\ jobs[id].algorithmId \in ManifestIds
            /\ jobs[id].symbol # <<>>
            /\ jobs[id].startDate <= jobs[id].endDate

\* A request with a reversed date range and nothing else wrong, rejected
\* while the store holds a job of an earlier request.
C10_Witness ==
    /\ lastCall.op = "create"
    /\ lastCall.request = [algorithmId |-> "rsi_ma_cross",
                           symbol |-> <<" ", "s", "p", "y">>,
                           startDate |-> 2, endDate |-> 1]
    /\ lastCall.answer = "ValidationError"
    /\ Len(jobs) = 1

\* C11: the job ids that successful create calls returned, repeated
\* identical requests included, are pairwise distinct; the id a create call
\* returns is the id of the job it stored.
C11_JobIdsDistinct ==
    /\ \A a \in JobIds, b \in JobIds : jobs[a].id = jobs[b].id => a = b
    /\ (lastCall.op = "create" /\ lastCall.answer = "jobId") =>
            /\ jobs # <<>>
            /\ lastCall.jobId = jobs[Len(jobs)].id

\* Two jobs of the same request, with different ids.
C11_Witness ==
    /\ Len(jobs) = 2
    /\ jobs[1].algorithmId = jobs[2].algorithmId /\ jobs[1].symbol = jobs[2].symbol
    /\ jobs[1].startDate = jobs[2].startDate /\ jobs[1].endDate = jobs[2].endDate
    /\ jobs[1].id # jobs[2].id
    /\ lastCall.op = "create" /\ lastCall.jobId = jobs[2].id

\* The ids create has returned so far.
ReturnedIds == {jobs[i].id : i \in JobIds}

\* C12: get of an id that create never returned answers NotFoundError and
\* leaves the store as it was; get of a known id answers with the job's
\* latest written snapshot (its status the last one written), and changes
\* no job either.
C12_GetUnknownOrLatest ==
    [][(lastCall' # lastCall /\ lastCall'.op = "get") =>
            /\ jobs' = jobs
            /\ IF lastCall'.jobId \in ReturnedIds
               THEN \E i \in JobIds :
                        /\ jobs[i].id = lastCall'.jobId
                        /\ lastCall'.snapshot = <<jobs[i]>>
                        /\ lastCall'.answer = jobs[i].written[Len(jobs[i].written)]
               ELSE /\ lastCall'.answer = "NotFoundError"
                    /\ lastCall'.snapshot = <<>>
      ]_vars

\* A get of an id never returned, answered NotFoundError, while a job that
\* has already run is in the store.
C12_Witness ==
    /\ lastCall.op = "get" /\ lastCall.answer = "NotFoundError"
    /\ jobs # <<>> /\ lastCall.jobId \notin ReturnedIds
    /\ jobs[1].status = "completed"

\* C13: a failed background execution leaves its job failed with the error
\* recorded, in the step in which it fails; the engine is spawned once per
\* job, never again; the failure changes no other job and reaches no caller:
\* every answer to create or get is a job id, a snapshot, a ValidationError
\* or a NotFoundError.
C13_FailureRecorded ==
    /\ [](/\ \A id \in JobIds :
                /\ jobs[id].spawns = IF jobs[id].status = "queued" THEN 0 ELSE 1
                /\ jobs[id].status = "failed" => jobs[id].error \in JobErrors
          /\ lastCall.answer \notin JobErrors)
    /\ [][\A id \in JobIds :
            (jobs[id].status = "running" /\ jobs'[id] # jobs[id]) =>
                /\ jobs'[id].status \in TerminalStatuses
                /\ jobs'[id].spawns = jobs[id].spawns
                /\ jobs'[id].status = "failed" =>
                        /\ jobs'[id].error \in JobErrors
                        /\ \A other \in JobIds \ {id} : jobs'[other] = jobs[other]
                        /\ lastCall' = lastCall /\ observed' = observed
      ]_vars

\* One job failed by the engine and one by the normalizer, each spawned once,
\* the caller's last answer still a job id.
C13_Witness ==
    /\ Len(jobs) = 2
    /\ jobs[1].status = "failed" /\ jobs[1].error = "ProcessError"
    /\ jobs[2].status = "failed" /\ jobs[2].error = "NormalizationError"
    /\ jobs[1].spawns = 1 /\ jobs[2].spawns = 1
    /\ lastCall.op = "create" /\ lastCall.answer = "jobId"

(***************************************************************************)
(* Claims about the REST client (SpecClient).                              *)
(***************************************************************************)
ClientSettled == clientPc = "settled" /\ response # NoResponse

\* The body's `detail` when the body parses and `detail` is a string,
\* otherwise the status text, otherwise 'Request failed'.
DetailElseStatusText(resp) ==
    IF /\ resp.body.kind = "object"
       /\ resp.body.detail.type = "string"
    THEN resp.body.detail.text
    ELSE IF resp.statusText # "" THEN resp.statusText ELSE "Request failed"

\* C14: whichever client function was called, a response that is not ok never
\* resolves the call: it rejects it, with the body's `detail` when that is a
\* string, otherwise the status text, otherwise 'Request failed'; a body that
\* does not parse as JSON gives the status text or 'Request failed', not the
\* parser's error.
C14_NonOkRejects ==
    /\ (response # NoResponse /\ ~response[1].ok) => outcome.kind # "resolved"
    /\ (ClientSettled /\ ~response[1].ok) =>
            /\ outcome.kind = "rejected"
            /\ outcome.message = DetailElseStatusText(response[1])
            /\ response[1].body.kind = "unparseable" =>
                    outcome.message \in {response[1].statusText, "Request failed"}
                        \ {""}

\* fetchMarketData answered by a non-ok response with no status text and a
\* body that is not JSON: rejected with 'Request failed'.
C14_Witness ==
    /\ ClientSettled
    /\ clientCall.fn = "fetchMarketData"
    /\ response[1] = [ok |-> FALSE, statusText |-> "", body |-> Unparseable]
    /\ outcome = Rejected("Request failed")

\* C15: on an ok response whose body parses, the call resolves with that body
\* as it is, after one fetch and no more: createBacktest's is a POST to
\* /backtests with the payload as JSON body, getBacktest's goes to
\* /backtests/{jobId}, fetchMarketData's to /market-data with the symbol and,
\* only when a timeframe is given, the timeframe as query parameters.
C15_OkResolves ==
    /\ Len(fetched) <= 1
    /\ (ClientSettled /\ response[1].ok /\ response[1].body.kind # "unparseable") =>
            /\ outcome.kind = "resolved"
            /\ outcome.value = response[1].body
            /\ Len(fetched) = 1
            /\ fetched[1].url.base = "http://localhost:8000"
            /\ clientCall.fn = "fetchAlgorithms" =>
                    /\ fetched[1].url.path = <<"algorithms">>
                    /\ fetched[1].method = "GET" /\ ~fetched[1].body.sent
            /\ clientCall.fn = "createBacktest" =>
                    /\ fetched[1].url.path = <<"backtests">>
                    /\ fetched[1].url.query = <<>>
                    /\ fetched[1].method = "POST"
                    /\ fetched[1].body.sent
                    /\ \A k \in DOMAIN clientCall.payload :
                            IF clientCall.payload[k] = NotGiven
                            THEN k \notin DOMAIN fetched[1].body.json
                            ELSE /\ k \in DOMAIN fetched[1].body.json
                                 /\ fetched[1].body.json[k] = clientCall.payload[k][1]
            /\ clientCall.fn = "getBacktest" =>
                    /\ fetched[1].url.path = <<"backtests", clientCall.jobId>>
                    /\ fetched[1].url.query = <<>>
                    /\ fetched[1].method = "GET" /\ ~fetched[1].body.sent
            /\ clientCall.fn = "fetchMarketData" =>
                    /\ fetched[1].url.path = <<"market-data">>
                    /\ fetched[1].method = "GET" /\ ~fetched[1].body.sent
                    /\ fetched[1].url.query =
                        IF clientCall.timeframe \in {NotGiven, <<"">>}
                        THEN <<<<"symbol", clientCall.symbol>>>>
                        ELSE <<<<"symbol", clientCall.symbol>>,
                               <<"timeframe", clientCall.timeframe[1]>>>>

\* fetchMarketData called without a timeframe and answered ok: resolved with
\* the body, the one fetch carrying the symbol alone.
C15_Witness ==
    /\ ClientSettled
    /\ clientCall.fn = "fetchMarketData" /\ clientCall.timeframe = NotGiven
    /\ response[1].ok /\ response[1].body = JsonObject(UndefinedDetail, "job")
    /\ outcome = Resolved(response[1].body)
    /\ fetched = <<fetchMarketData(clientCall.symbol, NotGiven)>>
    /\ Len(fetched[1].url.query) = 1

(***************************************************************************)
(* Claims about the parameter coercion (SpecCoerce).                       *)
(***************************************************************************)
\* The text, blanks at both ends aside, is empty or an optional sign followed
\* by one or more digits: what Number() turns into a finite number.
NumericText(s) ==
    \E i \in 0..Len(s) : \E j \in i..Len(s) :
        /\ \A k \in 1..i : s[k] \in WhiteSpace
        /\ \A k \in (j + 1)..Len(s) : s[k] \in WhiteSpace
        /\ LET core == SubSeq(s, i + 1, j)
               digits == IF core # <<>> /\ core[1] \in {"+", "-"}
                         THEN Tail(core) ELSE core
           IN  \/ core = <<>>
               \/ /\ digits # <<>>
                  /\ \A k \in 1..Len(digits) : digits[k] \in Digits

CoerceDone == cpc = "done"

\* The keys of the defaults for which the caller gave a non-empty value.
SuppliedKeys ==
    {k \in DOMAIN cdefaults : k \in DOMAIN cvalues /\ cvalues[k] # EmptyString}

\* C5: for a numeric default and a non-empty caller value, the resolved
\* parameter is the parsed number when the value parses as a number (default
\* 14, "21" gives 21) and the default when it does not ("abc" gives 14); it
\* is always a finite number, never NaN.
C5_NumericCoercion ==
    CoerceDone =>
        \A k \in SuppliedKeys :
            cdefaults[k].t = "num" =>
                /\ k \in DOMAIN cresult
                /\ cresult[k].t = "num"
                /\ cresult[k] = IF NumericText(cvalues[k].s)
                                THEN StringToNumber(cvalues[k].s)
                                ELSE cdefaults[k]
                /\ (cvalues[k] = Str(<<"2", "1">>) /\ cdefaults[k] = Num(14))
                        => cresult[k] = Num(21)
                /\ (cvalues[k] = Str(<<"a", "b", "c">>) /\ cdefaults[k] = Num(14))
                        => cresult[k] = Num(14)

\* Both documented cases at once: "21" parsed, "abc" replaced by the default.
C5_Witness ==
    /\ CoerceDone
    /\ cdefaults = [period |-> Num(14), mode |-> Num(14)]
    /\ cvalues = [period |-> Str(<<"2", "1">>), mode |-> Str(<<"a", "b", "c">>)]
    /\ cresult = [period |-> Num(21), mode |-> Num(14)]

\* C6: a default key the caller leaves out, or gives as the empty string,
\* resolves to the default; every key of the defaults is a key of the result.
C6_DefaultFill ==
    CoerceDone =>
        \A k \in DOMAIN cdefaults :
            /\ k \in DOMAIN cresult
            /\ (k \notin DOMAIN cvalues \/ cvalues[k] = EmptyString)
                    => cresult[k] = cdefaults[k]

\* One key left out and one given as '', both resolved to their defaults.
C6_Witness ==
    /\ CoerceDone
    /\ cdefaults = [period |-> Num(14), mode |-> Str(<<"a">>)]
    /\ cvalues = [mode |-> EmptyString]
    /\ cresult = cdefaults

\* C7: for a string default and a non-empty caller value, the resolved
\* parameter is the caller's value itself, numeric-looking or not.
C7_StringPassThrough ==
    CoerceDone =>
        \A k \in SuppliedKeys :
            cdefaults[k].t = "str" => cresult[k] = cvalues[k]

\* A string default given the numeric-looking " 1", kept with its blank.
C7_Witness ==
    /\ CoerceDone
    /\ "mode" \in DOMAIN cdefaults /\ cdefaults["mode"].t = "str"
    /\ "mode" \in DOMAIN cvalues /\ cvalues["mode"] = Str(<<" ", "1">>)
    /\ cresult["mode"] = Str(<<" ", "1">>)

\* The caller's keys that the defaults do not have.
ExtraKeys == (DOMAIN cvalues) \ (DOMAIN cdefaults)

ExtraValue(raw) ==
    IF NumericText(raw.s) THEN StringToNumber(raw.s) ELSE raw

\* C8 as stated: every caller key absent from the defaults is retained,
\* numeric when numeric-parseable and the caller's string otherwise.
C8_EveryExtraKeyRetained ==
    CoerceDone =>
        \A k \in ExtraKeys :
            k \in DOMAIN cresult /\ cresult[k] = ExtraValue(cvalues[k])

\* C8 as amended: every caller key absent from the defaults whose value is not
\* the empty string is retained, numeric when numeric-parseable and the
\* caller's string otherwise; an extra key given as '' is left out, and the
\* result has no other keys.
C8_NonEmptyExtraKeysRetained ==
    CoerceDone =>
        /\ \A k \in ExtraKeys :
            IF cvalues[k] = EmptyString THEN k \notin DOMAIN cresult
            ELSE k \in DOMAIN cresult /\ cresult[k] = ExtraValue(cvalues[k])
        /\ DOMAIN cresult \subseteq (DOMAIN cdefaults) \cup (DOMAIN cvalues)

\* Two extra keys: a numeric text resolved to a number, a word kept.
C8_Witness ==
    /\ CoerceDone
    /\ cdefaults = EmptyObject
    /\ cvalues = [period |-> Str(<<"2", "1">>), mode |-> Str(<<"a", "b", "c">>)]
    /\ cresult = [period |-> Num(21), mode |-> Str(<<"a", "b", "c">>)]

\* C28: coerceParameterTypes is idempotent: applied to its own result with
\* the same defaults it gives that result again.
C28_CoerceIdempotent ==
    cpc = "again" => cresult = cvalues

\* ' ' becomes 0 for the numeric default and for the key without a default;
\* the second application leaves both.
C28_Witness ==
    /\ cpc = "again"
    /\ cdefaults = [period |-> Num(14)]
    /\ cresult = [period |-> Num(0), mode |-> Num(0)]

(***************************************************************************)
(* Claims about the run lifecycle (Spec, SpecSymbol).                      *)
(***************************************************************************)
Polling(run) == run.pc \in {"get", "sleep"}

\* The awaits a handleRun call still has before it at most: two for each
\* attempt left (the request, the delay), one more for the POST.
RemainingAwaits(run) ==
    IF run.pc = "creating" THEN 2 * DefaultAttempts + 1
    ELSE 2 * (run.attempts - run.attempt) - (IF run.pc = "sleep" THEN 1 ELSE 0)

RECURSIVE SumRemaining(_)
SumRemaining(set) ==
    IF set = {} THEN 0
    ELSE LET run == CHOOSE x \in set : TRUE
         IN  CopiesIn(run, runs) * RemainingAwaits(run) + SumRemaining(set \ {run})

TotalRemaining == SumRemaining(BagToSet(runs))

\* A handleRun call that was polling is gone after the step.
PollEnds(run) ==
    /\ BagIn(run, runs) /\ Polling(run)
    /\ CopiesIn(run, runs') < CopiesIn(run, runs)
    /\ BagCardinality(runs') < BagCardinality(runs)

\* The calls of every pollBacktest in flight: the default 8 attempts, one
\* request per attempt begun, never more requests than attempts.
PollBounded ==
    \A run \in BagToSet(runs) :
        Polling(run) =>
            /\ run.attempts = DefaultAttempts
            /\ run.attempt < run.attempts
            /\ run.calls = run.attempt + 1
            /\ run.calls <= run.attempts

\* C2 as stated: pollBacktest issues at most `attempts` getBacktest calls and
\* then has returned a job snapshot or thrown the time-out error.
C2_ReturnsOrTimesOut ==
    /\ PollBounded
    /\ pollOutcome.kind = "returned" => pollOutcome.value \in JobBodies
    /\ pollOutcome.kind = "threw" => pollOutcome.message = TimedOutMessage

\* C2 as amended: pollBacktest always ends: it issues at most `attempts`
\* (default 8) getBacktest calls, every step of it leaves fewer awaits to go,
\* and it ends by returning a job snapshot, by throwing the time-out error
\* (after exactly `attempts` calls), or by rethrowing the error of a
\* getBacktest call that rejected.
C2_BoundedPolling ==
    /\ [](/\ PollBounded
          /\ pollOutcome.kind = "returned" => pollOutcome.value \in JobBodies
          /\ pollOutcome.kind = "threw" =>
                pollOutcome.message \in {TimedOutMessage, RequestFailedMessage})
    /\ [][/\ (BagCardinality(runs') <= BagCardinality(runs) /\ runs' # runs)
                => TotalRemaining' < TotalRemaining
          /\ \A run \in BagToSet(runs) :
                PollEnds(run) =>
                    /\ pollOutcome'.kind \in {"returned", "threw"}
                    /\ pollOutcome'.message = TimedOutMessage
                          <=> (run.pc = "sleep" /\ run.calls = run.attempts)
                    /\ pollOutcome'.kind = "returned" => result' = pollOutcome'.value
         ]_vars

\* All eight attempts answered 'running': the time-out error, caught by
\* handleRun.
C2_Witness ==
    /\ pollOutcome = Threw(TimedOutMessage)
    /\ runState = "error"
    /\ result = mockBacktestResult
    /\ runs = EmptyBag

\* C3: polling goes on only while the job is queued or running: a poll that
\* observes completed or failed ends the polling and hands that snapshot to
\* the caller.
C3_PollsUntilTerminal ==
    /\ \A run \in BagToSet(runs) :
            run.pc = "sleep" => run.job \in {"queued", "running"}
    /\ pollOutcome.kind = "returned" =>
            pollOutcome.value.status \in {"completed", "failed", NoStatus}

\* The text shown in the symbol field when Run is clicked: what was typed
\* last, or the symbol an algorithm's defaults put there.
SymbolFieldText == IF enteredText.t = "str" THEN enteredText.s ELSE symbol

LowerCaseLetters == {"s", "p", "y", "q", "a"}

\* A handleRun call begun in this step, with its POST in flight.
RunStarted(run) ==
    /\ run.pc = "creating"
    /\ CopiesIn(run, runs') > CopiesIn(run, runs)

\* C9: the symbol a run request carries is the text of the symbol field with
\* the white space around it removed and its letters upper-cased.
C9_SymbolTrimmedUpper ==
    [][\A run \in BagToSet(runs') :
            RunStarted(run) =>
                LET sent == run.payload[1].symbol
                IN  /\ sent = ToUpperCase(Trim(SymbolFieldText))
                    /\ sent # <<>> =>
                          sent[1] \notin WhiteSpace /\ sent[Len(sent)] \notin WhiteSpace
                    /\ \A i \in 1..Len(sent) : sent[i] \notin LowerCaseLetters
      ]_vars

\* " s" typed, Run clicked: the request in flight carries "S".
C9_Witness ==
    /\ enteredText = Str(<<" ", "s">>)
    /\ \E run \in BagToSet(runs) :
            run.pc = "creating" /\ run.payload[1].symbol = <<"S">>

\* C24: at most one backtest run is in flight at a time: while a handleRun
\* call has not completed or failed, runState is running (the Run button is
\* disabled) and no second createBacktest request is issued.
C24_OneRunInFlight ==
    /\ BagCardinality(runs) <= 1
    /\ runs # EmptyBag => runState = "running"

\* C25: once every started run and the manifest load have finished, the
\* result and the run state shown are those the run started last has set.
C25_LatestRunShown ==
    (runs = EmptyBag /\ loadPc = "settled" /\ latestRun.kind = "finished") =>
        /\ result = latestRun.result
        /\ runState = latestRun.runState

\* A handleRun call fails in this step: its POST or a status poll rejects,
\* or the delay after the last attempt elapses.
RunFails(run) ==
    \/ CreateBacktestRejected(run)
    \/ GetBacktestRejected(run)
    \/ PollDelayElapsed(run) /\ run.attempt + 1 >= run.attempts

\* C26: handleRun propagates no failure: when createBacktest rejects, a poll
\* rejects or polling times out, the call is over (no further getBacktest
\* call), with runState error, the sample result and a notice; with no
\* algorithm selected it sets the notice only and sends no request.
C26_FailureHandled ==
    [][/\ \A run \in BagToSet(runs) :
            RunFails(run) =>
                /\ runState' = "error"
                /\ result' = mockBacktestResult
                /\ notice' # NoticeNone
                /\ BagCardinality(runs') = BagCardinality(runs) - 1
                /\ CopiesIn(run, runs') = CopiesIn(run, runs) - 1
       /\ (handleRun(MaxRuns) /\ selectedAlgoId = "") =>
                /\ notice' = NoticeSelectAlgorithm
                /\ UNCHANGED <<runs, runState, result>>
      ]_vars

\* A status poll rejected: the sample result and the notice are shown.
C26_Witness ==
    /\ pollOutcome = Threw(RequestFailedMessage)
    /\ runs = EmptyBag
    /\ runState = "error"
    /\ result = mockBacktestResult
    /\ notice = NoticeServiceUnavailable

\* C27: once the cleanup has set isCancelled, the fetchAlgorithms call
\* resolving or rejecting changes none of algorithms, the selection, symbol,
\* timeframe, parameters, runState, result and notice.
C27_CancelledLoadIsSilent ==
    [][(isCancelled /\ loadPc = "pending" /\ loadPc' # "pending") =>
            /\ loadPc' = "cancelled"
            /\ UNCHANGED <<algorithms, selectedAlgoId, symbol, timeframe, parameters,
                           runState, result, notice>>
      ]_vars

\* The second algorithm selected, the component unmounted, the load settled:
\* the selection is as the user left it.
C27_Witness ==
    /\ isCancelled /\ loadPc = "cancelled"
    /\ selectedAlgoId = "trend_follow_ema"
    /\ algorithms = mockAlgorithms

(***************************************************************************)
(* Claims about the indicators panel (SpecIndicators).                     *)
(***************************************************************************)
\* C20: for an indicators mapping the panel shows one series for each key
\* whose data is non-empty, leaves out the empty ones, and shows the
\* placeholder when the mapping is empty or absent.
C20_IndicatorsShown ==
    (panelPc = "rendered" /\ panelInput.kind \in {"mapping", "absent"}) =>
        LET nonEmpty == {k \in DOMAIN panelInput.entries : panelInput.entries[k] > 0}
        IN  IF nonEmpty = {} THEN panelShown = Placeholder
            ELSE /\ ~panelShown.placeholder
                 /\ Len(panelShown.charts) = Cardinality(nonEmpty)

(***************************************************************************)
(* Claims about the metric cards and the chart markers (SpecMetrics,       *)
(* SpecMarkers).                                                           *)
(***************************************************************************)
\* The values of the cards shown under a label.
CardValues(label) ==
    {metricCards[i].value : i \in {j \in 1..Len(metricCards) : metricCards[j].label = label}}

\* C21: the cards of a result are read from its metrics section: Net P&L is
\* metrics.netProfit, Win Rate metrics.winRate, Total Trades
\* metrics.totalTrades and Max Drawdown metrics.maxDrawdown, each 0 when the
\* field is missing; a result without a metrics section shows no card.
C21_MetricsFromSection ==
    panelPc = "rendered" =>
        IF metricsResult.isNull \/ metricsResult.metrics = NoMetrics
        THEN metricCards = <<>>
        ELSE LET m == metricsResult.metrics[1]
             IN  /\ CardValues("Net P&L") = {CurrencyFormat(OrZero(m.netProfit))}
                 /\ CardValues("Win Rate") = {PercentFormat(OrZero(m.winRate))}
                 /\ CardValues("Total Trades") = {PlainNumber(OrZero(m.totalTrades))}
                 /\ CardValues("Max Drawdown") = {PercentFormat(OrZero(m.maxDrawdown))}

MarkersRendered == panelPc = "rendered" /\ tradesProp.isArray

\* The markers among the first n that have the shape, and the trades among
\* the first n that have the time (a field name) truthy.
MarkersOfShape(shape, n) == {k \in 1..n : markers[k].shape = shape}
TradesWithEntry(n) == {i \in 1..n : TruthyTime(tradesProp.items[i].entryTime)}
TradesWithExit(n) == {i \in 1..n : TruthyTime(tradesProp.items[i].exitTime)}
EmittedBy(n) == Cardinality(TradesWithEntry(n)) + Cardinality(TradesWithExit(n))

IsEntryMarker(m) == m.shape = "arrowUp"
IsExitMarker(m) == m.shape = "arrowDown"
HasEntry(trade) == TruthyTime(trade.entryTime)
HasExit(trade) == TruthyTime(trade.exitTime)
TimesOf(seq) == [k \in 1..Len(seq) |-> seq[k].time]
EntryTimesOf(seq) == [k \in 1..Len(seq) |-> seq[k].entryTime]
ExitTimesOf(seq) == [k \in 1..Len(seq) |-> seq[k].exitTime]

\* C22: buildMarkers gives one entry marker for each trade with a truthy
\* entryTime and one exit marker for each trade with a truthy exitTime, the
\* trades in input order and a trade's entry marker before its exit marker;
\* an input that is not an array gives no marker.
C22_OneMarkerPerTime ==
    /\ (panelPc = "rendered" /\ ~tradesProp.isArray) => markers = <<>>
    /\ MarkersRendered =>
        LET items == tradesProp.items
        IN  /\ TimesOf(SelectSeq(markers, IsEntryMarker))
                    = EntryTimesOf(SelectSeq(items, HasEntry))
            /\ TimesOf(SelectSeq(markers, IsExitMarker))
                    = ExitTimesOf(SelectSeq(items, HasExit))
            /\ \A k \in 1..Len(markers) : IsEntryMarker(markers[k]) \/ IsExitMarker(markers[k])
            /\ \A i \in 1..Len(items) :
                /\ Cardinality(MarkersOfShape("arrowUp", EmittedBy(i)))
                        = Cardinality(TradesWithEntry(i))
                /\ Cardinality(MarkersOfShape("arrowDown", EmittedBy(i)))
                        = Cardinality(TradesWithExit(i))
                /\ (HasEntry(items[i]) /\ HasExit(items[i])) =>
                        /\ IsEntryMarker(markers[EmittedBy(i) - 1])
                        /\ IsExitMarker(markers[EmittedBy(i)])

\* A trade still open, then a closed one: three markers.
C22_Witness ==
    /\ MarkersRendered
    /\ tradesProp.items = <<Trade(Num(1), Undefined, NotGiven), Trade(Num(2), Num(3), Given(10))>>
    /\ Len(markers) = 3
    /\ markers[3].text = <<"Sell", 10>>

\* Trades ordered by entryTime, none closed before it was opened.
TradesTimeOrdered ==
    LET items == tradesProp.items
    IN  /\ \A i \in 1..Len(items) :
                /\ HasEntry(items[i])
                /\ HasExit(items[i]) => items[i].exitTime.n >= items[i].entryTime.n
        /\ \A i \in 1..(Len(items) - 1) : items[i].entryTime.n <= items[i + 1].entryTime.n

\* C23: for trades that are time-ordered ascending, the markers handed to the
\* price chart are in ascending time order.
C23_MarkersAscending ==
    (MarkersRendered /\ TradesTimeOrdered) =>
        \A k \in 1..(Len(markers) - 1) : markers[k].time.n <= markers[k + 1].time.n

(***************************************************************************)
(* Claims about the parameter editor (SpecParams, SpecRoundTrip).          *)
(***************************************************************************)
\* C16: the keys of the editable parameters are exactly the default-parameter
\* keys of the selected algorithm, whatever the order of algorithm changes,
\* edits, resets and the manifest load.
C16_ParametersMatchSelected ==
    DOMAIN parameters = DOMAIN parameterDefaults

\* C17: coerceParameterTypes(cloneParameters(d), d) = d for every map d of
\* finite numbers, strings and nulls: the editable copy is all strings, and
\* resolving it gives back the defaults with their types.
C17_DefaultsRoundTrip ==
    /\ cpc # "off" => \A k \in DOMAIN cvalues : cvalues[k].t = "str"
    /\ CoerceDone => cresult = cdefaults

\* A number and a null, cloned to "14" and '', resolved to 14 and null.
C17_Witness ==
    /\ CoerceDone
    /\ cdefaults = [period |-> Num(14), mode |-> Null]
    /\ cvalues = [period |-> Str(<<"1", "4">>), mode |-> EmptyString]
    /\ cresult = [period |-> Num(14), mode |-> Null]

\* The text shown for a default: '' for null, the decimal string for a number,
\* the default itself for a string.
DefaultText(defaultValue) ==
    IF defaultValue \in {Null, Undefined} THEN Str(<<>>)
    ELSE IF defaultValue = Num(14) THEN Str(<<"1", "4">>)
    ELSE IF defaultValue = Num(12) THEN Str(<<"1", "2">>)
    ELSE defaultValue

\* C18: Reset of a key changes that key alone and writes what Reset All
\* writes for it: '' for a null default, the decimal string for a number, the
\* default itself otherwise; Reset All makes the parameters the editable copy
\* of the selected algorithm's defaults.
C18_ResetRestoresDefault ==
    [][/\ \A key \in EditableKeys :
            handleParameterReset(key) =>
                /\ DOMAIN parameters' = (DOMAIN parameters) \cup {key}
                /\ \A k \in (DOMAIN parameters) \ {key} : parameters'[k] = parameters[k]
                /\ parameters'[key] = DefaultText(parameterDefaults[key])
                /\ parameters'[key] = cloneParameters(parameterDefaults)[key]
       /\ handleParameterResetAll =>
                /\ DOMAIN parameters' = DOMAIN parameterDefaults
                /\ \A k \in DOMAIN parameterDefaults :
                        parameters'[k] = DefaultText(parameterDefaults[k])
      ]_vars

\* Reset of `fast` while the editor still holds another algorithm's
\* parameters: `fast` is written, the others are as they were.
C18_Witness ==
    /\ selectedAlgoId = "trend_follow_ema"
    /\ parameters = [period |-> Str(<<"1", "4">>), mode |-> Str(<<"a">>),
                     fast |-> Str(<<"1", "2">>)]

RunStateLabels == {"idle", "running", "complete", "error"}

\* C19: runState is always one of idle, running, complete and error, and the
\* run-status pill always shows a label.
C19_RunStateLabelled ==
    /\ runState \in RunStateLabels
    /\ RunStatusLabel(runState) # ""

Init == CoerceIdle /\ UiInit /\ JobsInit /\ ClientIdle /\ PanelIdle

InFlight == BagToSet(runs)

Next ==
    \/ handleRun(MaxRuns)
    \/ \E run \in InFlight : CreateBacktestResolved(run)
    \/ \E run \in InFlight : CreateBacktestRejected(run)
    \/ \E run \in InFlight, job \in JobBodies : GetBacktestResolved(run, job)
    \/ \E run \in InFlight : GetBacktestRejected(run)
    \/ \E run \in InFlight : PollDelayElapsed(run)
    \/ \E i \in 1..Len(algorithms) : onAlgoChange(algorithms[i].id)
    \/ \E data \in ManifestBodies : FetchAlgorithmsResolved(data)
    \/ FetchAlgorithmsRejected

\* The run lifecycle: clicks on Run, algorithm changes, the manifest load and
\* the server's answers.
Spec == Init /\ [][Next]_vars

SymbolNext ==
    \/ \E value \in SymbolTexts : onSymbolChange(value)
    \/ handleRun(1)
    \/ \E run \in InFlight : CreateBacktestResolved(run)
    \/ \E run \in InFlight : CreateBacktestRejected(run)
    \/ \E run \in InFlight, job \in JobBodies : GetBacktestResolved(run, job)
    \/ \E run \in InFlight : GetBacktestRejected(run)
    \/ \E run \in InFlight : PollDelayElapsed(run)
    \/ \E i \in 1..Len(algorithms) : onAlgoChange(algorithms[i].id)
    \/ \E data \in ManifestBodies : FetchAlgorithmsResolved(data)
    \/ FetchAlgorithmsRejected

\* The same component with the symbol field typed into, one run at a time.
SpecSymbol == Init /\ [][SymbolNext]_vars

\* The parameter editor with algorithm changes and the manifest load.
SpecParams == Init /\ [][ParamsNext]_vars

\* The handlers need the component mounted; the promise of fetchAlgorithms
\* settles whether it is or not.
UnmountNext ==
    \/ ~isCancelled /\ \E i \in 1..Len(algorithms) : onAlgoChange(algorithms[i].id)
    \/ ~isCancelled /\ \E value \in SymbolTexts : onSymbolChange(value)
    \/ ~isCancelled /\ \E key \in EditableKeys : handleParameterReset(key)
    \/ Unmount
    \/ \E data \in ManifestBodies : FetchAlgorithmsResolved(data)
    \/ FetchAlgorithmsRejected

\* The component unmounting before or after the manifest load settles.
SpecUnmount == Init /\ [][UnmountNext]_vars

=============================================================================
